---- MODULE Spec2Model ----
(***************************************************************************)
(* A model of logdog's logger/handler dispatch pipeline and of its name    *)
(* registries (src/register.go, src/logger.go, src/handler.go,             *)
(* src/logging.go).  Goroutines are the threads of the model; every        *)
(* statement that reads or writes shared state without holding a lock is   *)
(* a step of its own, statements under one lock are one step.              *)
(***************************************************************************)
EXTENDS Integers, Sequences, FiniteSets, TLC

\* ------------------------------------------------------------------ bounds
NumThreads == 2
MaxLoggers == 3
MaxHandlers == 3
MaxDisable == 1
MaxOps == 2
MaxConfig == 3
MaxAttached == 2
MaxArgs == 2
MaxFormats == 2

\* ------------------------------------------------------- program constants
NOTHING == 0
DEBUG == 1
INFO == 2
WARN == 4
ERROR == 8
NOTICE == 16
CRITICAL == 32
ALL == 255
NothingLevel == 0
DefaultFuncCallDepth == 2
WARNING == WARN

Levels == {NOTHING, DEBUG, INFO, WARN, ERROR, NOTICE, CRITICAL, ALL}

\* a level of the caller's own, and the levels the tables are indexed by
TRACE == DEBUG + INFO
LevelNums == Levels \cup {TRACE}

\* the names of the level tables: the package's, one of the caller's, and
\* one never registered
LevelNameSet ==
    {"NOTHING", "DEBUG", "INFO", "WARN", "WARNING", "ERROR", "NOTICE",
     "CRITICAL", "TRACE", "bogus"}

\* no entry under a name in levelNames
NoLevel == 0 - 1

\* the package's level tables as declared
InitLevelNames ==
    [n \in LevelNameSet |->
        CASE n = "NOTHING" -> NOTHING
          [] n = "DEBUG" -> DEBUG
          [] n = "INFO" -> INFO
          [] n = "WARN" -> WARN
          [] n = "WARNING" -> WARNING
          [] n = "ERROR" -> ERROR
          [] n = "NOTICE" -> NOTICE
          [] n = "CRITICAL" -> CRITICAL
          [] OTHER -> NoLevel]

InitNameLevels ==
    [l \in LevelNums |->
        CASE l = NOTHING -> "NOTHING"
          [] l = DEBUG -> "DEBUG"
          [] l = INFO -> "INFO"
          [] l = WARN -> "WARN"
          [] l = ERROR -> "ERROR"
          [] l = NOTICE -> "NOTICE"
          [] l = CRITICAL -> "CRITICAL"
          [] OTHER -> ""]

Threads == 1 .. NumThreads
LoggerIds == 1 .. MaxLoggers
HandlerIds == 1 .. MaxHandlers
\* register 1 is `formatters`, register 2 the first `loggers` table; every
\* DisableExistingLoggers allocates one more
FormattersReg == 1
FirstLoggersReg == 2
RegIds == 1 .. (FirstLoggersReg + MaxDisable)

LoggerNames == {"root", "x"}
LoggerKeys == LoggerNames \cup {""}
FormatterNames == {"default", "terminal", "json"}
Keys == LoggerKeys \cup FormatterNames
Nil == 0

\* the formatters the package registers, by identity
DefaultFormatter == 1
TerminalFormatter == 2

VARIABLES
    loggers,      \* the package variable `loggers`: the register it points to
    data,         \* Register.data of every register: key -> value, Nil if absent
    regmu,        \* Register.mu of every register: Nil, or the thread that locked it
    nregs,        \* registers allocated so far
    root,         \* the package variable `root`: a logger
    lg,           \* the Logger objects
    nlg,          \* loggers allocated so far
    hd,           \* the Handler objects
    nhd,          \* handlers allocated so far
    written,      \* lines each handler's sink has received
    closeCalls,   \* Close calls each handler has received
    pc,           \* where each goroutine is
    fr,           \* each goroutine's frame: arguments, locals and results
    ops,          \* calls each goroutine has started
    nconfig,      \* configuration calls made so far
    ndisable,     \* DisableExistingLoggers calls started so far
    returned,     \* <<name, logger>> for every GetLogger call that has returned
    resetClosed,  \* loggers DisableExistingLoggers has closed
    closedByReset,\* handlers DisableExistingLoggers has closed and nobody reopened
    regWon,       \* <<register, key, value>> of every Register call that inserted
    regLost,      \* <<register, key, value>> of every Register call that panicked
    levelNames,   \* the package map `levelNames`: name -> level, NoLevel if absent
    nameLevels    \* the package map `nameLevels`: level -> name, "" if absent

vars == <<loggers, data, regmu, nregs, root, lg, nlg, hd, nhd, written,
          closeCalls, pc, fr, ops, nconfig, ndisable, returned, resetClosed,
          closedByReset, regWon, regLost, levelNames, nameLevels>>

levelVars == <<levelNames, nameLevels>>
registryVars == <<loggers, data, regmu, nregs, root>>
loggerVars == <<lg, nlg>>
handlerVars == <<hd, nhd, written, closeCalls>>
historyVars == <<returned, resetClosed, closedByReset, regWon, regLost>>

\* ----------------------------------------------------------------- objects
NoLogger ==
    [Name |-> "", Handlers |-> <<>>, Level |-> 0, funcCallDepth |-> 0,
     runtimeCaller |-> FALSE]

\* a handler: lost counts the files it opened, still open, that it no
\* longer holds
NoHandler ==
    [kind |-> "none", Level |-> 0, output |-> "nil", mu |-> Nil, Name |-> "",
     Formatter |-> Nil, Path |-> "", lost |-> 0]

EmptyData == [k \in Keys |-> Nil]

\* a LogRecord; strings that are built from parts are sequences of pieces
NoRecord ==
    [Name |-> "", Level |-> 0, LevelName |-> "", FileName |-> "", Line |-> "",
     Msg |-> <<>>, Args |-> <<>>, Fields |-> {}]

\* a key the configuration map does not hold
Absent == "<absent>"

\* a configuration map of a handler
NoConfig ==
    [name |-> Absent, level |-> Absent, formatter |-> Absent,
     filename |-> Absent]

NoFrame ==
    [op |-> "none", cont |-> "user", arg |-> "", name |-> "", val |-> Nil, recv |-> Nil,
     cand |-> Nil, ret |-> Nil, created |-> FALSE, lgr |-> Nil, level |-> 0,
     thresh |-> 0, passed |-> FALSE, snap |-> <<>>, idx |-> 0, calls |-> <<>>,
     hlevel |-> 0, panic |-> "", preData |-> EmptyData, preClose |-> [h \in HandlerIds |-> 0], preNlg |-> 0,
     preNhd |-> 0,
     \* a Close call: the handler closed or the handlers closed in order, the
     \* lines written to os.Stderr, the error returned, the sinks beforehand
     hdl |-> Nil, closed |-> <<>>, diag |-> 0, err |-> FALSE,
     preOut |-> [h \in HandlerIds |-> "nil"],
     \* a record: the arguments NewLogRecord was given, the record, the
     \* result of GetMessage, the results of the Format calls made on it
     in |-> <<>>, rec |-> NoRecord, rendered |-> FALSE, message |-> <<>>,
     outs |-> <<>>,
     \* a LoadConfig call: the configuration and the handler beforehand
     cfg |-> NoConfig, pre |-> NoHandler,
     \* a logging call: whether the logger captures the caller, whether
     \* runtime.Caller succeeded, and pathname, line and function of the record
     callerOn |-> FALSE, callerOk |-> FALSE, file |-> "", line |-> 0,
     funcname |-> "",
     \* the Format calls of its Emits that returned an error
     fails |-> 0]

\* new(Logger) followed by GetLogger's three assignments
NewLogger(name) ==
    [Name |-> name, Handlers |-> <<>>, Level |-> 0,
     funcCallDepth |-> DefaultFuncCallDepth, runtimeCaller |-> TRUE]

NewStreamHandlerObj ==
    [NoHandler EXCEPT !.kind = "Stream", !.Level = NothingLevel,
                      !.output = "stderr", !.Formatter = TerminalFormatter]

NewFileHandlerObj ==
    [NoHandler EXCEPT !.kind = "File", !.Level = NothingLevel,
                      !.output = "discard", !.Formatter = DefaultFormatter]

NewNullHandlerObj ==
    [NoHandler EXCEPT !.kind = "Null"]

\* ---------------------------------------------------------------- registry
\* Register.Get: an unguarded read of the map
Get(r, name) == data[r][name]

\* a lookup that keeps the empty name
NormNameKept(name) == name

\* GetLogger's first statement
NormName(name) == IF name = "" THEN "root" ELSE name

\* the check under the lock in Register.Register
IsRepeated(r, name) == data[r][name] # Nil

\* the insertion under the lock in Register.Register
Inserted(r, name, v) == [data EXCEPT ![r][name] = v]

\* ------------------------------------------------------------------ filter
\* a filter that also drops a record at exactly the threshold
LoggerFilterInclusive(level, loggerLevel) == level <= loggerLevel

\* Logger.Filter: TRUE means the record is dropped
LoggerFilter(level, loggerLevel) == level < loggerLevel

\* a filter that also suppresses a record at exactly the handler's level
HandlerFilterInclusive(level, handlerLevel) == level <= handlerLevel

\* StreamHandler.Filter and FileHandler.Filter: TRUE means suppressed
HandlerFilter(level, handlerLevel) == level < handlerLevel

\* ----------------------------------------------------------------- records
\* the values passed as arguments: strings, integers and Fields maps; a
\* Fields map is a set of <<key, value>> pairs with distinct keys, the value
\* "func" standing for a Go function value
StrArg(x) == [kind |-> "str", s |-> x, m |-> {}]

IntArg(x) == [kind |-> "int", s |-> x, m |-> {}]

FieldsArg(m) == [kind |-> "fields", s |-> "", m |-> m]

FieldMaps ==
    {{}, {<<"k", "1">>}, {<<"j", "2">>, <<"k", "1">>}, {<<"k", "func">>},
     {<<"k", "%(name)">>}}

ArgValues ==
    {StrArg("a"), StrArg("b"), StrArg("%(name)"), IntArg("1"), IntArg("2")}
        \cup {FieldsArg(m) : m \in FieldMaps}

ArgLists == UNION {[1 .. n -> ArgValues] : n \in 0 .. MaxArgs}

\* the message templates: none, "%s-%s" and "%s"
Templates == {<<>>, <<"%s", "-", "%s">>, <<"%s">>}

\* an extraction that takes a Fields map wherever it stands
RECURSIVE ExtractAnyFields(_)
ExtractAnyFields(args) ==
    IF args = <<>> THEN [Args |-> <<>>, Fields |-> {}]
    ELSE IF args[Len(args)].kind = "fields"
    THEN [Args |-> SubSeq(args, 1, Len(args) - 1), Fields |-> args[Len(args)].m]
    ELSE LET r == ExtractAnyFields(SubSeq(args, 1, Len(args) - 1))
         IN  [Args |-> Append(r.Args, args[Len(args)]), Fields |-> r.Fields]

\* LogRecord.ExtractFieldsFromArgs: only the last argument is examined
ExtractFieldsFromArgs(args) ==
    IF Len(args) = 0 THEN [Args |-> args, Fields |-> {}]
    ELSE IF args[Len(args)].kind = "fields"
    THEN [Args |-> SubSeq(args, 1, Len(args) - 1), Fields |-> args[Len(args)].m]
    ELSE [Args |-> args, Fields |-> {}]

\* fmt.Sprintf("level %d", level)
LevelString(level) ==
    CASE level = NOTHING -> "level 0"
      [] level = DEBUG -> "level 1"
      [] level = INFO -> "level 2"
      [] level = TRACE -> "level 3"
      [] level = WARN -> "level 4"
      [] level = ERROR -> "level 8"
      [] level = NOTICE -> "level 16"
      [] level = CRITICAL -> "level 32"
      [] level = ALL -> "level 255"

\* GetLevelName: the registered name, or "level <N>"
GetLevelName(level) ==
    IF nameLevels[level] # "" THEN nameLevels[level] ELSE LevelString(level)

\* GetLevelByName finds the level of a name, and panics if there is none
HasLevelByName(levelname) == levelNames[levelname] # NoLevel

GetLevelByName(levelname) == levelNames[levelname]

\* NewLogRecord(name, level, pathname, funcname, line, msg, args...)
NewLogRecordOf(name, level, msg, args) ==
    LET x == ExtractFieldsFromArgs(args)
    IN  [Name |-> name, Level |-> level, LevelName |-> GetLevelName(level),
         FileName |-> "file.go", Line |-> "7", Msg |-> msg,
         Args |-> x.Args, Fields |-> x.Fields]

\* the pieces of a sequence of sequences, one after the other
RECURSIVE Concat(_)
Concat(ss) == IF ss = <<>> THEN <<>> ELSE Head(ss) \o Concat(Tail(ss))

\* the keys of the Fields maps, in increasing order
KeyOrder == <<"j", "k">>

\* the pairs of a map by increasing key, the order fmt and encoding/json
\* print a map in
PairsByKey(m) ==
    LET ks == SelectSeq(KeyOrder, LAMBDA k : \E p \in m : p[1] = k)
    IN  [i \in 1 .. Len(ks) |-> CHOOSE p \in m : p[1] = ks[i]]

\* the orders a range over a map may visit its pairs in
Orders(m) ==
    {o \in [1 .. Cardinality(m) -> m] :
        \A i, j \in 1 .. Cardinality(m) : o[i] = o[j] => i = j}

\* Fields.String: fmt.Sprintf("%#v", fields)
FieldsString(m) ==
    LET ps == PairsByKey(m)
    IN  <<"logdog.Fields{">>
            \o Concat([i \in 1 .. Len(ps) |->
                    (IF i > 1 THEN <<", ">> ELSE <<>>)
                        \o <<ps[i][1], ":", ps[i][2]>>])
            \o <<"}">>

\* what the verb %v prints for a value
FormV(v) ==
    CASE v.kind = "str" -> <<v.s>>
      [] v.kind = "int" -> <<v.s>>
      [] v.kind = "fields" -> FieldsString(v.m)

\* what the verb %s prints for a value
FormS(v) ==
    CASE v.kind = "str" -> <<v.s>>
      [] v.kind = "int" -> <<"%!s(int=", v.s, ")">>
      [] v.kind = "fields" -> FieldsString(v.m)

\* the type and value fmt names an operand by that no verb consumed
FormExtra(v) ==
    CASE v.kind = "str" -> <<"string=", v.s>>
      [] v.kind = "int" -> <<"int=", v.s>>
      [] v.kind = "fields" -> <<"logdog.Fields=">> \o FieldsString(v.m)

NeedSpaceAlways(prevString, isString) == TRUE

\* fmt.Sprint adds a space between operands when neither is a string
NeedSpace(prevString, isString) == ~prevString /\ ~isString

\* fmt.Sprint(args...)
Sprint(args) ==
    Concat([i \in 1 .. Len(args) |->
        (IF i > 1 /\ NeedSpace(args[i - 1].kind = "str", args[i].kind = "str")
         THEN <<" ">> ELSE <<>>) \o FormV(args[i])])

\* fmt.Sprintf(msg, args...), msg given by its pieces, the verbs being "%s":
\* n is the number of operands the pieces before have consumed
RECURSIVE SprintfFrom(_, _, _)
SprintfFrom(msg, args, n) ==
    IF msg = <<>>
    THEN IF n < Len(args)
         THEN <<"%!(EXTRA ">>
                \o Concat([i \in 1 .. Len(args) - n |->
                        (IF i > 1 THEN <<", ">> ELSE <<>>)
                            \o FormExtra(args[n + i])])
                \o <<")">>
         ELSE <<>>
    ELSE IF Head(msg) = "%s"
    THEN (IF n < Len(args) THEN FormS(args[n + 1]) ELSE <<"%!s(MISSING)">>)
            \o SprintfFrom(Tail(msg), args, n + 1)
    ELSE <<Head(msg)>> \o SprintfFrom(Tail(msg), args, n)

Sprintf(msg, args) == SprintfFrom(msg, args, 0)

\* LogRecord.GetMessage
GetMessageOf(rec) ==
    IF rec.Msg = <<>> THEN Sprint(rec.Args) ELSE Sprintf(rec.Msg, rec.Args)

\* -------------------------------------------------------------- formatters
DefaultFmt ==
    <<"%(color)", "[", "%(time)", "] [", "%(levelname)", "] [", "%(filename)",
      ":", "%(lineno)", "]", "%(endColor)", " ", "%(message)">>

\* a template of the caller's
PlainFmt == <<"%(levelname)", " ", "%(name)", " ", "%(message)">>

\* the configurations of a TextFormatter: an empty Fmt is the zero value
TextFormatters == [Fmt : {<<>>, DefaultFmt, PlainFmt}, EnableColors : BOOLEAN]

\* colorHash: the escape sequence of the colour of a level, white by default
colorHash(level) ==
    <<"ESC[",
      CASE level = DEBUG -> "34"
        [] level = INFO -> "32"
        [] level = WARN -> "33"
        [] level = ERROR -> "31"
        [] level = NOTICE -> "36"
        [] level = CRITICAL -> "31"
        [] OTHER -> "37",
      "m">>

\* the pieces an ANSI escape sequence starts with
Escapes == {"ESC[", "ESC[0m"}

ColorsWhenTerminal(isColorTerminal, tf) == isColorTerminal

\* TextFormatter.Format: whether the colours are on
Colors(isColorTerminal, tf) ==
    isColorTerminal /\ (IF tf.Fmt = <<>> THEN FALSE ELSE tf.EnableColors)

\* TextFormatter.formatFields, the range visiting the pairs in order o
formatFields(o) ==
    <<"%(color)">>
        \o Concat([i \in 1 .. Len(o) |-> <<" ", o[i][1], "=", o[i][2]>>])
        \o <<"%(endColor)">>

\* the replacement of one %(field)
Replace(match, tf, isColorTerminal, rec) ==
    CASE match = "%(name)" -> <<rec.Name>>
      [] match = "%(time)" -> <<"TIME">>
      [] match = "%(levelname)" -> <<rec.LevelName>>
      [] match = "%(filename)" -> <<rec.FileName>>
      [] match = "%(lineno)" -> <<rec.Line>>
      [] match = "%(message)" -> GetMessageOf(rec)
      [] match = "%(color)" ->
            IF Colors(isColorTerminal, tf) THEN colorHash(rec.Level) ELSE <<>>
      [] match = "%(endColor)" ->
            IF Colors(isColorTerminal, tf) THEN <<"ESC[0m">> ELSE <<>>
      [] OTHER -> <<match>>

\* the result of a Format call: the formatter, the string and the error
\* returned, and for JSON the keys of the object and its _fields
FormatResult(kind, tf, term, out, err, keys, fields) ==
    [kind |-> kind, tf |-> tf, term |-> term, out |-> out, err |-> err,
     keys |-> keys, fields |-> fields]

\* TextFormatter.Format
TextFormat(tf, isColorTerminal, rec, o) ==
    LET fmtStr == (IF tf.Fmt = <<>> THEN DefaultFmt ELSE tf.Fmt)
                        \o formatFields(o)
    IN  FormatResult("text", tf, isColorTerminal,
            Concat([i \in 1 .. Len(fmtStr) |->
                        Replace(fmtStr[i], tf, isColorTerminal, rec)]),
            FALSE, {}, {})

IncludesFieldsAlways(fields) == TRUE

\* JSONFormatter.Format: len(fields) > 0
IncludesFields(fields) == Cardinality(fields) > 0

\* json.Marshal fails on a function value
Marshals(fields) == \A p \in fields : p[2] # "func"

\* json.Marshal of the object: the keys sorted, a map by increasing key
Marshal(rec, keys, fields) ==
    LET ps == PairsByKey(fields)
    IN  <<"{">>
          \o (IF "_fields" \in keys
              THEN <<"_fields:{">>
                    \o Concat([i \in 1 .. Len(ps) |->
                            (IF i > 1 THEN <<",">> ELSE <<>>)
                                \o <<ps[i][1], ":", ps[i][2]>>])
                    \o <<"},">>
              ELSE <<>>)
          \o <<"file:", rec.FileName, ",level:", rec.LevelName,
               ",line:", rec.Line, ",message:">>
          \o GetMessageOf(rec) \o <<",time:", "TIME", "}">>

\* JSONFormatter.Format
JSONFormat(rec) ==
    LET fields == rec.Fields
        keys == {"time", "message", "file", "line", "level"}
                    \cup (IF IncludesFields(fields) THEN {"_fields"} ELSE {})
    IN  IF Marshals(fields)
        THEN FormatResult("json", [Fmt |-> <<>>, EnableColors |-> FALSE], FALSE,
                 Marshal(rec, keys, fields), FALSE, keys,
                 IF "_fields" \in keys THEN fields ELSE {})
        ELSE FormatResult("json", [Fmt |-> <<>>, EnableColors |-> FALSE], FALSE,
                 <<>>, TRUE, {}, {})

\* ------------------------------------------------------------------- close
\* the result of Close on a handler: its output afterwards and whether an
\* error is returned
CloseHandler(h) ==
    CASE h.kind = "File" /\ h.output = "file" ->
            [output |-> "closedfile", err |-> FALSE]
      [] h.kind = "File" /\ h.output = "closedfile" ->
            [output |-> "closedfile", err |-> TRUE]
      [] OTHER -> [output |-> h.output, err |-> FALSE]

\* one hdlr.Close() of Logger.Close's loop, and the report of its error
CloseStep(h, st) ==
    LET r == CloseHandler(st.hd[h])
    IN  [hd |-> [st.hd EXCEPT ![h].output = r.output],
         cc |-> [st.cc EXCEPT ![h] = @ + 1],
         errs |-> st.errs + (IF r.err THEN 1 ELSE 0),
         order |-> Append(st.order, h)]

\* the state a Close loop starts from
CloseStart == [hd |-> hd, cc |-> closeCalls, errs |-> 0, order |-> <<>>]

\* a loop that gives up at the first Close that fails
RECURSIVE CloseListStopsAtError(_, _)
CloseListStopsAtError(hs, st) ==
    IF hs = <<>> THEN st
    ELSE IF CloseHandler(st.hd[Head(hs)]).err THEN CloseStep(Head(hs), st)
    ELSE CloseListStopsAtError(Tail(hs), CloseStep(Head(hs), st))

\* Logger.Close over a handler list, threading the handler objects and the
\* Close counts; every handler of the list is closed, errors are only
\* reported
RECURSIVE CloseList(_, _)
CloseList(hs, st) ==
    IF hs = <<>> THEN st
    ELSE CloseList(Tail(hs), CloseStep(Head(hs), st))

\* the loop of DisableExistingLoggers: Logger.Close on every logger of a set
RECURSIVE CloseLoggers(_, _)
CloseLoggers(ls, st) ==
    IF ls = {} THEN st
    ELSE LET l == CHOOSE x \in ls : TRUE
         IN  CloseLoggers(ls \ {l}, CloseList(lg[l].Handlers, st))

Registered(r) == {data[r][k] : k \in Keys} \ {Nil}

\* ------------------------------------------------------------------- Init
\* the registers once the package is initialised: the formatters "default"
\* and "terminal", and the root logger
InitData ==
    [r \in RegIds |->
        IF r = FormattersReg
        THEN [k \in Keys |-> IF k = "default" THEN DefaultFormatter
                              ELSE IF k = "terminal" THEN TerminalFormatter
                              ELSE Nil]
        ELSE IF r = FirstLoggersReg
        THEN [k \in Keys |-> IF k = "root" THEN 1 ELSE Nil]
        ELSE EmptyData]

Init ==
    /\ loggers = FirstLoggersReg
    /\ data = InitData
    /\ regmu = [r \in RegIds |-> Nil]
    /\ nregs = FirstLoggersReg
    /\ root = 1
    /\ lg = [l \in LoggerIds |->
                IF l = 1 THEN [NewLogger("root") EXCEPT !.Handlers = <<1>>]
                ELSE NoLogger]
    /\ nlg = 1
    /\ hd = [h \in HandlerIds |-> IF h = 1 THEN NewStreamHandlerObj ELSE NoHandler]
    /\ nhd = 1
    /\ written = [h \in HandlerIds |-> 0]
    /\ closeCalls = [h \in HandlerIds |-> 0]
    /\ pc = [t \in Threads |-> "idle"]
    /\ fr = [t \in Threads |-> NoFrame]
    /\ ops = [t \in Threads |-> 0]
    /\ nconfig = 0
    /\ ndisable = 0
    /\ returned = {<<"root", 1>>}
    /\ resetClosed = {}
    /\ closedByReset = {}
    /\ regWon = {}
    /\ regLost = {}
    /\ levelNames = InitLevelNames
    /\ nameLevels = InitNameLevels

\* ----------------------------------------------------------------- helpers
\* a panic unwinds the goroutine; deferred unlocks have run
Panicked(t, f, msg) ==
    /\ pc' = [pc EXCEPT ![t] = "panicked"]
    /\ fr' = [fr EXCEPT ![t] = [f EXCEPT !.panic = msg]]

StartCall(t) ==
    /\ pc[t] = "idle"
    /\ ops[t] < MaxOps
    /\ ops' = [ops EXCEPT ![t] = @ + 1]

\* the loggers some goroutine holds a reference to
Refs == {p[2] : p \in returned}

\* where a GetLogger call returns to: its caller, or DisableExistingLoggers
AfterGetLogger(f) == IF f.cont = "disable" THEN "dis_root" ELSE "idle"

\* -------------------------------------------------------------- GetLogger
\* GetLogger from its entry to the first check: loggers.Get(name), and on a
\* miss new(Logger) with its name, call depth and caller flag
GetLoggerEnter(t, f) ==
    LET v == Get(loggers, f.name)
    IN  IF v # Nil
        THEN /\ fr' = [fr EXCEPT ![t] = [f EXCEPT !.ret = v]]
             /\ pc' = [pc EXCEPT ![t] = AfterGetLogger(f)]
             /\ returned' = returned \cup {<<f.name, v>>}
             /\ UNCHANGED loggerVars
        ELSE /\ nlg < MaxLoggers
             /\ nlg' = nlg + 1
             /\ lg' = [lg EXCEPT ![nlg + 1] = NewLogger(f.name)]
             /\ fr' = [fr EXCEPT ![t] = [f EXCEPT !.cand = nlg + 1]]
             /\ pc' = [pc EXCEPT ![t] = "gl_check2"]
             /\ UNCHANGED returned

GetLogger(t, n) ==
    /\ StartCall(t)
    /\ GetLoggerEnter(t, [NoFrame EXCEPT !.op = "GetLogger", !.arg = n,
                                           !.name = NormName(n)])
    /\ UNCHANGED <<levelVars, registryVars, handlerVars, nconfig, ndisable, resetClosed,
                   closedByReset, regWon, regLost>>

\* "check twice": the second unguarded loggers.Get(name)
GetLoggerCheck2(t) ==
    /\ pc[t] = "gl_check2"
    /\ LET f == fr[t]
           v == Get(loggers, f.name)
       IN  IF v # Nil
           THEN /\ fr' = [fr EXCEPT ![t] = [f EXCEPT !.ret = v]]
                /\ pc' = [pc EXCEPT ![t] = AfterGetLogger(f)]
                /\ returned' = returned \cup {<<f.name, v>>}
           ELSE /\ pc' = [pc EXCEPT ![t] = "reg_call"]
                /\ UNCHANGED <<levelVars, fr, returned>>
    /\ UNCHANGED <<levelVars, registryVars, loggerVars, handlerVars, ops, nconfig, ndisable,
                   resetClosed, closedByReset, regWon, regLost>>

\* Register.Get reads r.data without the lock: a goroutine in Register's
\* body is about to write the map the read goes to
MapWriteInFlight(r) ==
    \E u \in Threads :
        /\ pc[u] = "reg_body"
        /\ fr[u].recv = r
        /\ ~IsRepeated(r, fr[u].name)

\* the first loggers.Get of a GetLogger call overlaps the write: the runtime
\* may stop the program with "concurrent map read and map write"
GetLoggerRaces(t, n) ==
    /\ StartCall(t)
    /\ MapWriteInFlight(loggers)
    /\ Panicked(t, [NoFrame EXCEPT !.op = "GetLogger", !.arg = n,
                                   !.name = NormName(n)],
                "concurrent map read and map write")
    /\ UNCHANGED <<levelVars, registryVars, loggerVars, handlerVars, nconfig, ndisable,
                   historyVars>>

\* the same for the second loggers.Get, and for the one of the GetLogger
\* call DisableExistingLoggers makes
GetLoggerCheck2Races(t) ==
    /\ pc[t] \in {"gl_check2", "dis_get"}
    /\ MapWriteInFlight(loggers)
    /\ Panicked(t, fr[t], "concurrent map read and map write")
    /\ UNCHANGED <<levelVars, registryVars, loggerVars, handlerVars, ops, nconfig, ndisable,
                   historyVars>>

\* loggers.Register(name, logger): the receiver is the register `loggers`
\* points to when the call is made
RegisterCall(t) ==
    /\ pc[t] = "reg_call"
    /\ fr' = [fr EXCEPT ![t].recv = loggers, ![t].val = fr[t].cand]
    /\ pc' = [pc EXCEPT ![t] = "reg_lock"]
    /\ UNCHANGED <<levelVars, registryVars, loggerVars, handlerVars, ops, nconfig, ndisable,
                   historyVars>>

\* --------------------------------------------------------------- Register
\* RegisterFormatter(name, formatter): formatters.Register
RegisterFormatter(t, n) ==
    /\ StartCall(t)
    /\ fr' = [fr EXCEPT ![t] = [NoFrame EXCEPT !.op = "Register", !.name = n,
                                  !.recv = FormattersReg,
                                  !.val = 10 * t + ops[t]]]
    /\ pc' = [pc EXCEPT ![t] = "reg_lock"]
    /\ UNCHANGED <<levelVars, registryVars, loggerVars, handlerVars, nconfig, ndisable,
                   historyVars>>

\* a lock that never waits
CanLockAlways(m) == TRUE

\* sync.Mutex.Lock / sync.RWMutex.Lock returns only when the lock is free
CanLock(m) == m = Nil

\* r.mu.Lock()
RegisterLock(t) ==
    /\ pc[t] = "reg_lock"
    /\ CanLock(regmu[fr[t].recv])
    /\ regmu' = [regmu EXCEPT ![fr[t].recv] = t]
    /\ pc' = [pc EXCEPT ![t] = "reg_body"]
    /\ UNCHANGED <<levelVars, loggers, data, nregs, root, loggerVars, handlerVars, fr, ops,
                   nconfig, ndisable, historyVars>>

\* a Register that overwrites a repeated key
RegisterOutcomeOverwriting(r, name, v) ==
    [panic |-> FALSE, data |-> Inserted(r, name, v)]

\* the body of Register.Register under the lock: panic on a repeated key,
\* insert otherwise
RegisterOutcome(r, name, v) ==
    IF IsRepeated(r, name)
    THEN [panic |-> TRUE, data |-> data]
    ELSE [panic |-> FALSE, data |-> Inserted(r, name, v)]

\* the check, the insertion and the deferred r.mu.Unlock()
RegisterBody(t) ==
    /\ pc[t] = "reg_body"
    /\ LET f == fr[t]
           o == RegisterOutcome(f.recv, f.name, f.val)
       IN  /\ data' = o.data
           /\ regmu' = [regmu EXCEPT ![f.recv] = Nil]
           /\ IF o.panic
              THEN /\ Panicked(t, f, "Repeated registration key")
                   /\ regLost' = regLost \cup {<<f.recv, f.name, f.val>>}
                   /\ UNCHANGED <<levelVars, regWon, returned>>
              ELSE /\ regWon' = regWon \cup {<<f.recv, f.name, f.val>>}
                   /\ UNCHANGED regLost
                   /\ IF f.op = "Register"
                      THEN /\ pc' = [pc EXCEPT ![t] = "idle"]
                           /\ UNCHANGED <<levelVars, fr, returned>>
                      ELSE /\ fr' = [fr EXCEPT ![t] =
                                        [f EXCEPT !.ret = f.cand, !.created = TRUE]]
                           /\ pc' = [pc EXCEPT ![t] = AfterGetLogger(f)]
                           /\ returned' = returned \cup {<<f.name, f.cand>>}
    /\ UNCHANGED <<levelVars, loggers, nregs, root, loggerVars, handlerVars, ops, nconfig,
                   ndisable, resetClosed, closedByReset>>

\* ------------------------------------------------- DisableExistingLoggers
\* the call, up to the evaluation of loggers.mu for Lock
DisableExistingLoggers(t) ==
    /\ StartCall(t)
    /\ ndisable < MaxDisable
    /\ ndisable' = ndisable + 1
    /\ fr' = [fr EXCEPT ![t] = [NoFrame EXCEPT !.op = "Disable", !.recv = loggers,
                                  !.preData = data[loggers],
                                  !.preClose = closeCalls,
                                  !.preNlg = nlg, !.preNhd = nhd]]
    /\ pc' = [pc EXCEPT ![t] = "dis_lock"]
    /\ UNCHANGED <<levelVars, registryVars, loggerVars, handlerVars, nconfig, historyVars>>

\* loggers.mu.Lock()
DisableLock(t) ==
    /\ pc[t] = "dis_lock"
    /\ CanLock(regmu[fr[t].recv])
    /\ regmu' = [regmu EXCEPT ![fr[t].recv] = t]
    /\ pc' = [pc EXCEPT ![t] = "dis_close"]
    /\ UNCHANGED <<levelVars, loggers, data, nregs, root, loggerVars, handlerVars, fr, ops,
                   nconfig, ndisable, historyVars>>

\* a reset that closes the root logger only
DisableTargetsRootOnly(r) == {data[r]["root"]} \ {Nil}

\* the loggers DisableExistingLoggers closes: those of the current table
DisableTargets(r) == Registered(r)

\* the loop closing every logger, loggers.data = make(...), and
\* loggers.mu.Unlock(); each statement reads the package variable `loggers`
DisableCloseAll(t) ==
    /\ pc[t] = "dis_close"
    /\ LET r == loggers
           st == CloseLoggers(DisableTargets(r), CloseStart)
       IN  /\ hd' = st.hd
           /\ closeCalls' = st.cc
           /\ resetClosed' = resetClosed \cup DisableTargets(r)
           /\ closedByReset' = closedByReset \cup
                  {h \in HandlerIds : st.cc[h] > closeCalls[h]}
           /\ data' = [data EXCEPT ![r] = EmptyData]
           /\ IF regmu[r] = Nil
              THEN /\ Panicked(t, fr[t], "sync: Unlock of unlocked RWMutex")
                   /\ UNCHANGED regmu
              ELSE /\ regmu' = [regmu EXCEPT ![r] = Nil]
                   /\ pc' = [pc EXCEPT ![t] = "dis_swap"]
                   /\ UNCHANGED fr
    /\ UNCHANGED <<levelVars, loggers, nregs, root, loggerVars, nhd, written, ops, nconfig,
                   ndisable, returned, regWon, regLost>>

\* loggers = NewRegister()
DisableSwap(t) ==
    /\ pc[t] = "dis_swap"
    /\ nregs + 1 \in RegIds
    /\ nregs' = nregs + 1
    /\ loggers' = nregs + 1
    /\ data' = [data EXCEPT ![nregs + 1] = EmptyData]
    /\ pc' = [pc EXCEPT ![t] = "dis_get"]
    /\ UNCHANGED <<levelVars, regmu, root, loggerVars, handlerVars, fr, ops, nconfig,
                   ndisable, historyVars>>

\* GetLogger("root"), called from DisableExistingLoggers
DisableGetRoot(t) ==
    /\ pc[t] = "dis_get"
    /\ GetLoggerEnter(t, [fr[t] EXCEPT !.name = NormName("root"),
                                        !.cont = "disable"])
    /\ UNCHANGED <<levelVars, registryVars, handlerVars, ops, nconfig, ndisable,
                   resetClosed, closedByReset, regWon, regLost>>

\* root = GetLogger("root")
DisableSetRoot(t) ==
    /\ pc[t] = "dis_root"
    /\ root' = fr[t].ret
    /\ pc' = [pc EXCEPT ![t] = "dis_add"]
    /\ UNCHANGED <<levelVars, loggers, data, regmu, nregs, loggerVars, handlerVars, fr, ops,
                   nconfig, ndisable, historyVars>>

\* the handlers DisableExistingLoggers attaches to the new root
DisableRootHandlers(h) == <<h>>

\* root.AddHandler(NewStreamHandler())
DisableAddHandler(t) ==
    /\ pc[t] = "dis_add"
    /\ nhd < MaxHandlers
    /\ nhd' = nhd + 1
    /\ hd' = [hd EXCEPT ![nhd + 1] = NewStreamHandlerObj]
    /\ lg' = [lg EXCEPT ![root].Handlers = @ \o DisableRootHandlers(nhd + 1)]
    /\ pc' = [pc EXCEPT ![t] = "idle"]
    /\ UNCHANGED <<levelVars, registryVars, nlg, written, closeCalls, fr, ops, nconfig,
                   ndisable, historyVars>>

\* --------------------------------------------------------------- dispatch
\* a loop that visits the list back to front
HandlerAtReversed(snap, idx) == snap[Len(snap) - idx + 1]

\* CallHandlers: `for _, hdlr := range lg.Handlers` visits the list it read
\* when the loop began, front to back
HandlerAt(snap, idx) == snap[idx]

\* a Panic that returns to its caller like any logging method
AfterLogReturns(f) == "idle"

\* where a method goes on once lg.log has returned: Panic and Panicf go on
\* to panic("CRITICAL"), every other method returns to its caller
AfterLog(f) == IF f.op = "Panic" THEN "panicked" ELSE "idle"

\* lg.log has returned to the logging method
LogDone(t, f) ==
    /\ pc' = [pc EXCEPT ![t] = AfterLog(f)]
    /\ fr' = [fr EXCEPT ![t] =
                 IF AfterLog(f) = "panicked" THEN [f EXCEPT !.panic = "CRITICAL"]
                 ELSE f]

\* the number of frames on the stack of a goroutine inside Logger.log: the
\* logging method is always called from some function
CallerStacks == {DefaultFuncCallDepth + 1, DefaultFuncCallDepth + 2}

\* runtime.Caller(skip) succeeds when the stack has a frame that far up
runtimeCaller(skip, stack) == skip < stack

\* placeholders left at the zero values
CallerZero == [file |-> "", line |-> 0, funcname |-> ""]

\* Logger.log: what the record carries when nothing is captured
CallerUnknown == [file |-> "??", line |-> 0, funcname |-> "??"]

\* Logger.log: file, line and function name of the record; runtime.FuncForPC
\* finds the function of a pc that runtime.Caller returned
CallerOf(l, stack) ==
    IF l.runtimeCaller /\ runtimeCaller(l.funcCallDepth, stack)
    THEN [file |-> "caller.go", line |-> 42, funcname |-> "main.caller"]
    ELSE CallerUnknown

\* a logging method: Logger.log with Logger.Handle: the caller is captured,
\* the record is built, Logger.Filter is applied, and CallHandlers reads the
\* handler list
LogAs(t, l, level, op) ==
    /\ StartCall(t)
    /\ l \in Refs
    /\ \E stack \in CallerStacks :
        LET c == CallerOf(lg[l], stack)
            f == [NoFrame EXCEPT !.op = op, !.lgr = l, !.level = level,
                                !.thresh = lg[l].Level,
                                !.callerOn = lg[l].runtimeCaller,
                                !.callerOk =
                                    runtimeCaller(lg[l].funcCallDepth, stack),
                                !.file = c.file, !.line = c.line,
                                !.funcname = c.funcname]
            g == [f EXCEPT !.passed = TRUE, !.snap = lg[l].Handlers, !.idx = 1]
        IN  IF LoggerFilter(level, lg[l].Level)
            THEN LogDone(t, f)
            ELSE IF lg[l].Handlers = <<>>
            THEN LogDone(t, g)
            ELSE /\ fr' = [fr EXCEPT ![t] = g]
                 /\ pc' = [pc EXCEPT ![t] = "handle"]
    /\ UNCHANGED <<levelVars, registryVars, loggerVars, handlerVars, nconfig, ndisable,
                   historyVars>>

\* Debug .. Critical, Debugf .. Criticalf, Log, Logf
Log(t, l, level) == LogAs(t, l, level, "Log")

\* Panic and Panicf: lg.log(CRITICAL, ...) and then panic("CRITICAL")
Panic(t, l) == LogAs(t, l, CRITICAL, "Panic")

\* one Handle call of the loop has returned: on to the next handler, or back
\* to the caller of the logging method
HandleReturns(t, f, h, emitted) ==
    LET g == [f EXCEPT !.calls = Append(@, [h |-> h, kind |-> hd[h].kind,
                                            hlevel |-> f.hlevel,
                                            emitted |-> emitted]),
                       !.idx = @ + 1]
    IN  IF f.idx + 1 > Len(f.snap)
        THEN LogDone(t, g)
        ELSE /\ fr' = [fr EXCEPT ![t] = g]
             /\ pc' = [pc EXCEPT ![t] = "handle"]

\* Handle up to the lock: NullHandler.Handle does nothing; StreamHandler and
\* FileHandler panic on a nil output, then apply Filter
HandleFilter(t) ==
    /\ pc[t] = "handle"
    /\ LET f == fr[t]
           h == HandlerAt(f.snap, f.idx)
           g == [f EXCEPT !.hlevel = hd[h].Level]
       IN  CASE hd[h].kind = "Null" -> HandleReturns(t, g, h, FALSE)
             [] hd[h].kind # "Null" /\ hd[h].output = "nil" ->
                    Panicked(t, g, "you should set output file before use this handler")
             [] hd[h].kind # "Null" /\ hd[h].output # "nil"
                  /\ HandlerFilter(f.level, hd[h].Level) ->
                    HandleReturns(t, g, h, FALSE)
             [] OTHER ->
                    /\ fr' = [fr EXCEPT ![t] = g]
                    /\ pc' = [pc EXCEPT ![t] = "h_lock"]
    /\ UNCHANGED <<levelVars, registryVars, loggerVars, handlerVars, ops, nconfig, ndisable,
                   historyVars>>

\* hdlr.mu.Lock()
HandleLock(t) ==
    /\ pc[t] = "h_lock"
    /\ LET h == HandlerAt(fr[t].snap, fr[t].idx)
       IN  /\ CanLock(hd[h].mu)
           /\ hd' = [hd EXCEPT ![h].mu = t]
    /\ pc' = [pc EXCEPT ![t] = "h_emit"]
    /\ UNCHANGED <<levelVars, registryVars, loggerVars, nhd, written, closeCalls, fr, ops,
                   nconfig, ndisable, historyVars>>

\* a write that reaches the sink whatever its state
FprintlnAlways(output) == 1

\* what fmt.Fprintln(hdlr.output, msg) adds to the sink: a line on an open
\* stream or file; Discard takes nothing, a closed file returns an error
\* that Emit ignores
Fprintln(output) == IF output \in {"stderr", "file"} THEN 1 ELSE 0

\* an Emit that hands the formatter's error on to its caller
EmitPropagatesError(failed) == failed

\* Emit never hands the error of Formatter.Format on: it has no result
EmitPropagates(failed) == FALSE

\* an Emit that reports nothing
EmitDiagSilent(failed) == 0

\* Emit: a failed Format is reported with one line on os.Stderr
EmitDiag(failed) == IF failed THEN 1 ELSE 0

\* one more Format call that returned an error, or none
FormatFailed(failed) == IF failed THEN 1 ELSE 0

\* Emit under the lock, then the deferred hdlr.mu.Unlock(); `failed` says
\* whether hdlr.Formatter.Format returned an error, in which case the
\* message written is the empty string
HandleEmitWith(t, failed) ==
    /\ pc[t] = "h_emit"
    /\ LET f == fr[t]
           h == HandlerAt(f.snap, f.idx)
       IN  /\ hd' = [hd EXCEPT ![h].mu = Nil]
           /\ IF EmitPropagates(failed)
              THEN /\ Panicked(t, f, "Format record failed")
                   /\ UNCHANGED written
              ELSE IF hd[h].output = "nil"
              THEN /\ Panicked(t, [f EXCEPT !.diag = @ + EmitDiag(failed),
                                            !.fails = @ + FormatFailed(failed)],
                               "nil pointer dereference")
                   /\ UNCHANGED written
              ELSE /\ written' = [written EXCEPT ![h] = @ + Fprintln(hd[h].output)]
                   /\ HandleReturns(t, [f EXCEPT !.diag = @ + EmitDiag(failed),
                                                 !.fails = @ + FormatFailed(failed)],
                                    h, TRUE)
    /\ UNCHANGED <<levelVars, registryVars, loggerVars, nhd, closeCalls, ops, nconfig,
                   ndisable, historyVars>>

\* Emit of a record the handler's formatter renders
HandleEmit(t) == HandleEmitWith(t, FALSE)

\* Emit of a record for which the handler's formatter returns an error
HandleEmitFormatFails(t) == HandleEmitWith(t, TRUE)

\* ---------------------------------------------------------- configuration
\* a constructor or a setter: one call that runs to its end
StartConfigAs(t, f) ==
    /\ pc[t] = "idle"
    /\ nconfig < MaxConfig
    /\ nconfig' = nconfig + 1
    /\ fr' = [fr EXCEPT ![t] = f]
    /\ UNCHANGED <<pc, ops>>

StartConfig(t) == StartConfigAs(t, [NoFrame EXCEPT !.op = "Config"])

NewHandler(t, obj) ==
    /\ StartConfig(t)
    /\ nhd < MaxHandlers
    /\ nhd' = nhd + 1
    /\ hd' = [hd EXCEPT ![nhd + 1] = obj]
    /\ UNCHANGED <<levelVars, registryVars, loggerVars, written, closeCalls, ndisable,
                   historyVars>>

NewStreamHandler(t) == NewHandler(t, NewStreamHandlerObj)

NewFileHandler(t) == NewHandler(t, NewFileHandlerObj)

NewNullHandler(t) == NewHandler(t, NewNullHandlerObj)

\* StreamHandler.SetLevel and FileHandler.SetLevel
HandlerSetLevel(t, h, v) ==
    /\ StartConfig(t)
    /\ h \in 1 .. nhd
    /\ hd[h].kind \in {"Stream", "File"}
    /\ hd' = [hd EXCEPT ![h].Level = v]
    /\ UNCHANGED <<levelVars, registryVars, loggerVars, nhd, written, closeCalls, ndisable,
                   historyVars>>

\* StreamHandler.SetOutput(nil)
SetOutputNil(t, h) ==
    /\ StartConfig(t)
    /\ h \in 1 .. nhd
    /\ hd[h].kind = "Stream"
    /\ hd' = [hd EXCEPT ![h].output = "nil"]
    /\ UNCHANGED <<levelVars, registryVars, loggerVars, nhd, written, closeCalls, ndisable,
                   historyVars>>

\* FileHandler.SetPath with a path that can be opened: the file is opened
\* and takes the place of the output, which is not closed
SetPathOf(h, path) ==
    [h EXCEPT !.Path = path, !.output = "file",
              !.lost = @ + (IF h.output = "file" THEN 1 ELSE 0)]

SetPath(t, h) ==
    /\ StartConfig(t)
    /\ h \in 1 .. nhd
    /\ hd[h].kind = "File"
    /\ hd' = [hd EXCEPT ![h] = SetPathOf(@, "p")]
    /\ closedByReset' = closedByReset \ {h}
    /\ UNCHANGED <<levelVars, registryVars, loggerVars, nhd, written, closeCalls, ndisable,
                   returned, resetClosed, regWon, regLost>>

\* config.MustGetString(key, default)
MustGetString(v, default) == IF v = Absent THEN default ELSE v

\* GetFormatter(name): formatters.Get(name)
GetFormatter(name) ==
    IF name \in Keys THEN Get(FormattersReg, name) ELSE Nil

\* the formatter a handler of a kind is configured with when none is named
DefaultFormatterName(kind) == IF kind = "Stream" THEN "terminal" ELSE "default"

\* the configuration maps given to LoadConfig
Configs ==
    [name : {Absent, "h"}, level : {Absent, "INFO", "bogus"},
     formatter : {Absent, "terminal", "json"}, filename : {Absent, "", "q"}]

\* the statements of LoadConfig in order, each on the handler the one
\* before has left: the result is the handler, the error returned and the
\* value it panicked with
LoadConfigNamed(h, c) == [h EXCEPT !.Name = MustGetString(c.name, "")]

LoadConfigPath(h, c) ==
    IF h.kind # "File" THEN [hd |-> h, panic |-> ""]
    ELSE IF MustGetString(c.filename, "") = ""
    THEN [hd |-> h, panic |-> "Should provide a valid file path"]
    ELSE [hd |-> SetPathOf(h, c.filename), panic |-> ""]

\* a level assignment that keeps the handler's level when none is configured
LoadConfigLevelKept(h, c) ==
    IF c.level = Absent THEN [hd |-> h, panic |-> ""]
    ELSE IF HasLevelByName(c.level)
    THEN [hd |-> [h EXCEPT !.Level = GetLevelByName(c.level)], panic |-> ""]
    ELSE [hd |-> h, panic |-> "can not find level by name"]

LoadConfigLevel(h, c) ==
    IF HasLevelByName(MustGetString(c.level, "NOTHING"))
    THEN [hd |-> [h EXCEPT !.Level =
                    GetLevelByName(MustGetString(c.level, "NOTHING"))],
          panic |-> ""]
    ELSE [hd |-> h, panic |-> "can not find level by name"]

LoadConfigFormatter(h, c) ==
    LET formatter ==
            GetFormatter(MustGetString(c.formatter, DefaultFormatterName(h.kind)))
    IN  IF formatter = Nil
        THEN [hd |-> h, err |-> TRUE]
        ELSE [hd |-> [h EXCEPT !.Formatter = formatter], err |-> FALSE]

\* StreamHandler.LoadConfig and FileHandler.LoadConfig
LoadConfigOf(h, c) ==
    LET p == LoadConfigPath(LoadConfigNamed(h, c), c)
        l == LoadConfigLevel(p.hd, c)
        f == LoadConfigFormatter(l.hd, c)
    IN  IF p.panic # "" THEN [hd |-> p.hd, err |-> FALSE, panic |-> p.panic]
        ELSE IF l.panic # "" THEN [hd |-> l.hd, err |-> FALSE, panic |-> l.panic]
        ELSE [hd |-> f.hd, err |-> f.err, panic |-> ""]

LoadConfig(t, h, c) ==
    /\ pc[t] = "idle"
    /\ nconfig < MaxConfig
    /\ nconfig' = nconfig + 1
    /\ h \in 1 .. nhd
    /\ hd[h].kind \in {"Stream", "File"}
    /\ LET r == LoadConfigOf(hd[h], c)
           f == [NoFrame EXCEPT !.op = "LoadConfig", !.hdl = h, !.cfg = c,
                                !.pre = hd[h], !.err = r.err,
                                !.panic = r.panic]
       IN  /\ hd' = [hd EXCEPT ![h] = r.hd]
           /\ fr' = [fr EXCEPT ![t] = f]
           /\ pc' = [pc EXCEPT ![t] =
                        IF r.panic # "" THEN "panicked" ELSE "idle"]
           /\ closedByReset' =
                IF hd[h].kind = "File" /\ MustGetString(c.filename, "") # ""
                THEN closedByReset \ {h} ELSE closedByReset
    /\ UNCHANGED <<levelVars, registryVars, loggerVars, nhd, written,
                   closeCalls, ops, ndisable, returned, resetClosed, regWon,
                   regLost>>

\* the garbage collector runs the finalizer of an *os.File nothing refers
\* to any more, which closes it
Finalize(h) ==
    /\ h \in 1 .. nhd
    /\ hd[h].lost > 0
    /\ hd' = [hd EXCEPT ![h].lost = @ - 1]
    /\ UNCHANGED <<levelVars, registryVars, loggerVars, nhd, written,
                   closeCalls, pc, fr, ops, nconfig, ndisable, historyVars>>

\* Logger.SetLevel
SetLevel(t, l, v) ==
    /\ StartConfig(t)
    /\ l \in Refs
    /\ lg' = [lg EXCEPT ![l].Level = v]
    /\ UNCHANGED <<levelVars, registryVars, nlg, handlerVars, ndisable, historyVars>>

\* an AddLevelName that leaves nameLevels alone
NameLevelsKept(level, levelName) == nameLevels

\* AddLevelName: nameLevels[level] = levelName
NameLevelsAdded(level, levelName) == [nameLevels EXCEPT ![level] = levelName]

\* AddLevelName: levelNames[levelName] = level
LevelNamesAdded(level, levelName) == [levelNames EXCEPT ![levelName] = level]

\* AddLevelName(level, levelName), under the package lock mu
AddLevelName(t, level, levelName) ==
    /\ StartConfigAs(t, [NoFrame EXCEPT !.op = "AddLevelName",
                                        !.level = level, !.name = levelName])
    /\ levelNames' = LevelNamesAdded(level, levelName)
    /\ nameLevels' = NameLevelsAdded(level, levelName)
    /\ UNCHANGED <<registryVars, loggerVars, handlerVars, ndisable,
                   historyVars>>

\* Logger.EnableRuntimeCaller
EnableRuntimeCaller(t, l, enable) ==
    /\ StartConfig(t)
    /\ l \in Refs
    /\ lg' = [lg EXCEPT ![l].runtimeCaller = enable]
    /\ UNCHANGED <<levelVars, registryVars, nlg, handlerVars, ndisable,
                   historyVars>>

\* Logger.SetFuncCallDepth
SetFuncCallDepth(t, l, depth) ==
    /\ StartConfig(t)
    /\ l \in Refs
    /\ lg' = [lg EXCEPT ![l].funcCallDepth = depth]
    /\ UNCHANGED <<levelVars, registryVars, nlg, handlerVars, ndisable,
                   historyVars>>

\* Logger.AddHandler
AddHandler(t, l, h) ==
    /\ StartConfig(t)
    /\ l \in Refs
    /\ h \in 1 .. nhd
    /\ Len(lg[l].Handlers) < MaxAttached
    /\ lg' = [lg EXCEPT ![l].Handlers = Append(@, h)]
    /\ UNCHANGED <<levelVars, registryVars, nlg, handlerVars, ndisable, historyVars>>

\* the sink of every handler
Outputs == [h \in HandlerIds |-> hd[h].output]

\* Logger.Close: the loop over lg.Handlers, each error written to os.Stderr,
\* and `return nil`
Close(t, l) ==
    /\ l \in Refs
    /\ LET st == CloseList(lg[l].Handlers, CloseStart)
       IN  /\ StartConfigAs(t, [NoFrame EXCEPT !.op = "Close", !.lgr = l,
                                               !.closed = st.order,
                                               !.diag = st.errs,
                                               !.err = FALSE,
                                               !.preClose = closeCalls,
                                               !.preOut = Outputs])
           /\ hd' = st.hd
           /\ closeCalls' = st.cc
    /\ UNCHANGED <<levelVars, registryVars, loggerVars, nhd, written, ndisable,
                   historyVars>>

\* Close called on a handler: StreamHandler.Close, FileHandler.Close or
\* NullHandler.Close, returning its error
HandlerClose(t, h) ==
    /\ h \in 1 .. nhd
    /\ LET st == CloseStep(h, CloseStart)
       IN  /\ StartConfigAs(t, [NoFrame EXCEPT !.op = "HandlerClose", !.hdl = h,
                                               !.closed = st.order,
                                               !.err = st.errs > 0,
                                               !.preClose = closeCalls,
                                               !.preOut = Outputs])
           /\ hd' = st.hd
           /\ closeCalls' = st.cc
    /\ UNCHANGED <<levelVars, registryVars, loggerVars, nhd, written, ndisable,
                   historyVars>>

\* ------------------------------------------------------------ record calls
\* logdog.NewLogRecord(name, level, pathname, funcname, line, msg, args...)
NewLogRecord(t, level, msg, args) ==
    /\ StartCall(t)
    /\ fr' = [fr EXCEPT ![t] =
            [NoFrame EXCEPT !.op = "Record", !.in = args,
                            !.rec = NewLogRecordOf("x", level, msg, args)]]
    /\ UNCHANGED <<levelVars, registryVars, loggerVars, handlerVars, historyVars, pc,
                   nconfig, ndisable>>

\* record.GetMessage()
GetMessage(t) ==
    /\ pc[t] = "idle"
    /\ fr[t].op = "Record"
    /\ ~fr[t].rendered
    /\ fr' = [fr EXCEPT ![t].rendered = TRUE,
                        ![t].message = GetMessageOf(fr[t].rec)]
    /\ UNCHANGED <<levelVars, registryVars, loggerVars, handlerVars, historyVars, pc, ops,
                   nconfig, ndisable>>

Formatted(t, r) ==
    /\ pc[t] = "idle"
    /\ fr[t].op = "Record"
    /\ Len(fr[t].outs) < MaxFormats
    /\ fr' = [fr EXCEPT ![t].outs = Append(@, r)]
    /\ UNCHANGED <<levelVars, registryVars, loggerVars, handlerVars, historyVars, pc, ops,
                   nconfig, ndisable>>

\* tf.Format(record), the process having a colour terminal or not
FormatText(t, tf, isColorTerminal) ==
    \E o \in Orders(fr[t].rec.Fields) :
        Formatted(t, TextFormat(tf, isColorTerminal, fr[t].rec, o))

\* jf.Format(record)
FormatJSON(t) == Formatted(t, JSONFormat(fr[t].rec))

\* ---------------------------------------------------------- specifications
\* the steps of a logging call
DispatchSteps(t) ==
    \/ HandleFilter(t)
    \/ HandleLock(t)
    \/ HandleEmit(t)

Dispatch(t) ==
    \/ \E l \in LoggerIds, v \in Levels : Log(t, l, v)
    \/ \E l \in LoggerIds : Panic(t, l)
    \/ DispatchSteps(t)
    \/ HandleEmitFormatFails(t)

Configure(t) ==
    \/ NewStreamHandler(t)
    \/ NewFileHandler(t)
    \/ NewNullHandler(t)
    \/ \E h \in HandlerIds, v \in Levels : HandlerSetLevel(t, h, v)
    \/ \E h \in HandlerIds : SetOutputNil(t, h)
    \/ \E h \in HandlerIds : SetPath(t, h)
    \/ \E l \in LoggerIds, v \in Levels : SetLevel(t, l, v)
    \/ \E l \in LoggerIds, h \in HandlerIds : AddHandler(t, l, h)
    \/ \E l \in LoggerIds : Close(t, l)
    \/ \E h \in HandlerIds : HandlerClose(t, h)

Registry(t) ==
    \/ \E n \in LoggerNames \cup {""} : GetLogger(t, n)
    \/ \E n \in LoggerNames \cup {""} : GetLoggerRaces(t, n)
    \/ GetLoggerCheck2(t)
    \/ GetLoggerCheck2Races(t)
    \/ RegisterCall(t)
    \/ \E n \in FormatterNames : RegisterFormatter(t, n)
    \/ RegisterLock(t)
    \/ RegisterBody(t)
    \/ DisableExistingLoggers(t)
    \/ DisableLock(t)
    \/ DisableCloseAll(t)
    \/ DisableSwap(t)
    \/ DisableGetRoot(t)
    \/ DisableSetRoot(t)
    \/ DisableAddHandler(t)

\* every goroutine may make every call
Next == \E t \in Threads : Dispatch(t) \/ Configure(t) \/ Registry(t)

Spec == Init /\ [][Next]_vars

\* the state after GetLogger("x") has returned to the program's only goroutine
InitDispatch ==
    /\ loggers = FirstLoggersReg
    /\ data = [InitData EXCEPT ![FirstLoggersReg]["x"] = 2]
    /\ regmu = [r \in RegIds |-> Nil]
    /\ nregs = FirstLoggersReg
    /\ root = 1
    /\ lg = [l \in LoggerIds |->
                IF l = 1 THEN [NewLogger("root") EXCEPT !.Handlers = <<1>>]
                ELSE IF l = 2 THEN NewLogger("x") ELSE NoLogger]
    /\ nlg = 2
    /\ hd = [h \in HandlerIds |-> IF h = 1 THEN NewStreamHandlerObj ELSE NoHandler]
    /\ nhd = 1
    /\ written = [h \in HandlerIds |-> 0]
    /\ closeCalls = [h \in HandlerIds |-> 0]
    /\ pc = [t \in Threads |-> "idle"]
    /\ fr = [t \in Threads |-> NoFrame]
    /\ ops = [t \in Threads |-> 0]
    /\ nconfig = 0
    /\ ndisable = 0
    /\ returned = {<<"root", 1>>, <<"x", 2>>}
    /\ resetClosed = {}
    /\ closedByReset = {}
    /\ regWon = {<<FirstLoggersReg, "x", 2>>}
    /\ regLost = {}
    /\ levelNames = InitLevelNames
    /\ nameLevels = InitNameLevels

\* one goroutine configures loggers and handlers at every level and logs
\* at every level
NextFilter ==
    \/ Dispatch(1)
    \/ NewStreamHandler(1)
    \/ NewFileHandler(1)
    \/ NewNullHandler(1)
    \/ \E h \in HandlerIds, v \in Levels : HandlerSetLevel(1, h, v)
    \/ \E l \in LoggerIds, v \in Levels : SetLevel(1, l, v)
    \/ \E l \in LoggerIds, h \in HandlerIds : AddHandler(1, l, h)

SpecFilter == Init /\ [][NextFilter]_vars

\* the levels concurrent logging is explored at
FewLevels == {DEBUG, INFO}

\* goroutines log concurrently while handlers are attached and reconfigured
NextDispatch ==
    \E t \in Threads :
        \/ \E l \in LoggerIds, v \in FewLevels : Log(t, l, v)
        \/ DispatchSteps(t)
        \/ NewFileHandler(t)
        \/ \E h \in HandlerIds : HandlerSetLevel(t, h, INFO)
        \/ \E h \in HandlerIds : SetOutputNil(t, h)
        \/ \E l \in LoggerIds, h \in HandlerIds : AddHandler(t, l, h)

SpecDispatch == InitDispatch /\ [][NextDispatch]_vars

\* the calls on the name registries
RegisterSteps(t) ==
    \/ GetLoggerCheck2(t)
    \/ RegisterCall(t)
    \/ RegisterLock(t)
    \/ RegisterBody(t)

\* the unguarded reads of the logger table, overlapping a write
RaceSteps(t) ==
    \/ \E n \in LoggerNames : GetLoggerRaces(t, n)
    \/ GetLoggerCheck2Races(t)

DisableSteps(t) ==
    \/ DisableLock(t)
    \/ DisableCloseAll(t)
    \/ DisableSwap(t)
    \/ DisableGetRoot(t)
    \/ DisableSetRoot(t)
    \/ DisableAddHandler(t)

\* goroutines look loggers up and register formatters concurrently
NextRegister ==
    \E t \in Threads :
        \/ \E n \in LoggerKeys : GetLogger(t, n)
        \/ \E n \in FormatterNames : RegisterFormatter(t, n)
        \/ RegisterSteps(t)
        \/ RaceSteps(t)

SpecRegister == Init /\ [][NextRegister]_vars

\* goroutines look loggers up while the registry is reset
NextReset ==
    \E t \in Threads :
        \/ \E n \in LoggerNames : GetLogger(t, n)
        \/ RegisterSteps(t)
        \/ RaceSteps(t)
        \/ DisableExistingLoggers(t)
        \/ DisableSteps(t)
        \/ \E l \in LoggerIds, h \in HandlerIds : AddHandler(t, l, h)

SpecReset == Init /\ [][NextReset]_vars

\* one goroutine makes every call, one after the other
NextSeq ==
    \/ \E n \in LoggerKeys : GetLogger(1, n)
    \/ RegisterSteps(1)
    \/ DisableExistingLoggers(1)
    \/ DisableSteps(1)
    \/ \E l \in LoggerIds, v \in FewLevels : Log(1, l, v)
    \/ DispatchSteps(1)
    \/ NewFileHandler(1)
    \/ \E h \in HandlerIds : SetPath(1, h)
    \/ \E l \in LoggerIds : SetLevel(1, l, INFO)
    \/ \E l \in LoggerIds, h \in HandlerIds : AddHandler(1, l, h)
    \/ \E l \in LoggerIds : Close(1, l)

SpecSeq == Init /\ [][NextSeq]_vars

\* a file handler with an open file is attached to logger "x"
InitClose ==
    /\ loggers = FirstLoggersReg
    /\ data = [InitData EXCEPT ![FirstLoggersReg]["x"] = 2]
    /\ regmu = [r \in RegIds |-> Nil]
    /\ nregs = FirstLoggersReg
    /\ root = 1
    /\ lg = [l \in LoggerIds |->
                IF l = 1 THEN [NewLogger("root") EXCEPT !.Handlers = <<1>>]
                ELSE IF l = 2 THEN [NewLogger("x") EXCEPT !.Handlers = <<2>>]
                ELSE NoLogger]
    /\ nlg = 2
    /\ hd = [h \in HandlerIds |->
                IF h = 1 THEN NewStreamHandlerObj
                ELSE IF h = 2 THEN SetPathOf(NewFileHandlerObj, "p")
                ELSE NoHandler]
    /\ nhd = 2
    /\ written = [h \in HandlerIds |-> 0]
    /\ closeCalls = [h \in HandlerIds |-> 0]
    /\ pc = [t \in Threads |-> "idle"]
    /\ fr = [t \in Threads |-> NoFrame]
    /\ ops = [t \in Threads |-> 0]
    /\ nconfig = 0
    /\ ndisable = 0
    /\ returned = {<<"root", 1>>, <<"x", 2>>}
    /\ resetClosed = {}
    /\ closedByReset = {}
    /\ regWon = {<<FirstLoggersReg, "x", 2>>}
    /\ regLost = {}
    /\ levelNames = InitLevelNames
    /\ nameLevels = InitNameLevels

\* one goroutine attaches, closes and reopens handlers
NextClose ==
    \/ NewFileHandler(1)
    \/ NewNullHandler(1)
    \/ \E h \in HandlerIds : SetPath(1, h)
    \/ \E l \in LoggerIds, h \in HandlerIds : AddHandler(1, l, h)
    \/ \E l \in LoggerIds : Close(1, l)
    \/ \E h \in HandlerIds : HandlerClose(1, h)

SpecClose == InitClose /\ [][NextClose]_vars

\* goroutines log and panic through handlers that are closed, lose their
\* output or fail to format
NextCall ==
    \E t \in Threads :
        \/ \E l \in LoggerIds : Log(t, l, INFO)
        \/ \E l \in LoggerIds : Panic(t, l)
        \/ DispatchSteps(t)
        \/ HandleEmitFormatFails(t)
        \/ \E h \in HandlerIds : SetOutputNil(t, h)
        \/ \E h \in HandlerIds : HandlerClose(t, h)
        \/ \E h \in HandlerIds : HandlerSetLevel(t, h, ALL)
        \/ \E l \in LoggerIds : SetLevel(t, l, ALL)

SpecCall == InitClose /\ [][NextCall]_vars

\* handlers made, configured and closed by one goroutine
NextConfig ==
    \/ NewFileHandler(1)
    \/ NewStreamHandler(1)
    \/ \E h \in HandlerIds : SetPath(1, h)
    \/ \E h \in HandlerIds, c \in Configs : LoadConfig(1, h, c)
    \/ \E h \in HandlerIds : HandlerSetLevel(1, h, DEBUG)
    \/ \E h \in HandlerIds : HandlerClose(1, h)
    \/ \E h \in HandlerIds : Finalize(h)

SpecConfig == InitClose /\ [][NextConfig]_vars

\* logging calls of one goroutine on loggers whose caller capture and call
\* depth it changes
NextCaller ==
    \/ \E l \in LoggerIds, enable \in BOOLEAN : EnableRuntimeCaller(1, l, enable)
    \/ \E l \in LoggerIds, depth \in CallerStacks : SetFuncCallDepth(1, l, depth)
    \/ \E l \in LoggerIds : SetLevel(1, l, INFO)
    \/ \E l \in LoggerIds, level \in FewLevels : Log(1, l, level)
    \/ \E l \in LoggerIds : Panic(1, l)
    \/ DispatchSteps(1)

SpecCaller == InitClose /\ [][NextCaller]_vars

\* logging calls of one goroutine whose formatters may fail, on handlers
\* it attaches and closes
NextEmit ==
    \/ \E l \in LoggerIds, h \in HandlerIds : AddHandler(1, l, h)
    \/ \E h \in HandlerIds : HandlerClose(1, h)
    \/ \E l \in LoggerIds, level \in FewLevels : Log(1, l, level)
    \/ DispatchSteps(1)
    \/ HandleEmitFormatFails(1)

SpecEmit == InitClose /\ [][NextEmit]_vars

\* level names added by one goroutine: new names, new levels, and names and
\* levels the tables hold already
NextLevels ==
    \E level \in {DEBUG, INFO, TRACE},
       levelName \in {"DEBUG", "INFO", "TRACE", "WARNING"} :
        AddLevelName(1, level, levelName)

SpecLevels == Init /\ [][NextLevels]_vars

\* records built and rendered by one goroutine
NextRecord ==
    \/ \E level \in FewLevels, msg \in Templates, args \in ArgLists :
            NewLogRecord(1, level, msg, args)
    \/ GetMessage(1)

SpecRecord == Init /\ [][NextRecord]_vars

\* goroutine 1 has built a record
InitFormat ==
    \E level \in FewLevels, msg \in Templates, args \in ArgLists :
        /\ levelNames = InitLevelNames
        /\ nameLevels = InitNameLevels
        /\ loggers = FirstLoggersReg
        /\ data = InitData
        /\ regmu = [r \in RegIds |-> Nil]
        /\ nregs = FirstLoggersReg
        /\ root = 1
        /\ lg = [l \in LoggerIds |->
                    IF l = 1 THEN [NewLogger("root") EXCEPT !.Handlers = <<1>>]
                    ELSE NoLogger]
        /\ nlg = 1
        /\ hd = [h \in HandlerIds |->
                    IF h = 1 THEN NewStreamHandlerObj ELSE NoHandler]
        /\ nhd = 1
        /\ written = [h \in HandlerIds |-> 0]
        /\ closeCalls = [h \in HandlerIds |-> 0]
        /\ pc = [t \in Threads |-> "idle"]
        /\ fr = [t \in Threads |->
                    IF t = 1
                    THEN [NoFrame EXCEPT !.op = "Record", !.in = args,
                            !.rec = NewLogRecordOf("x", level, msg, args)]
                    ELSE NoFrame]
        /\ ops = [t \in Threads |-> IF t = 1 THEN 1 ELSE 0]
        /\ nconfig = 0
        /\ ndisable = 0
        /\ returned = {<<"root", 1>>}
        /\ resetClosed = {}
        /\ closedByReset = {}
        /\ regWon = {}
        /\ regLost = {}

\* the record formatted by the text and the JSON formatter
NextFormat ==
    \/ \E tf \in TextFormatters, isColorTerminal \in BOOLEAN :
            FormatText(1, tf, isColorTerminal)
    \/ FormatJSON(1)

SpecFormat == InitFormat /\ [][NextFormat]_vars

\* ------------------------------------------------------------------ claims
InDispatch(t) == pc[t] \in {"handle", "h_lock", "h_emit"}

LogReturned(t) == pc[t] = "idle" /\ fr[t].op = "Log"

\* the handlers whose Handle has returned in goroutine t's logging call
Invoked(t) == [i \in 1 .. Len(fr[t].calls) |-> fr[t].calls[i].h]

\* C1: a logging call hands its record to the logger's handlers exactly when
\* the record's level is not below the logger's level: the handlers are
\* being called only for such a record, and when the call has returned every
\* handler of the list was called for such a record and none for a record
\* below the level
C1_LoggerThreshold ==
    \A t \in Threads :
        /\ InDispatch(t) => fr[t].level >= fr[t].thresh
        /\ LogReturned(t) =>
              IF fr[t].level >= fr[t].thresh
              THEN fr[t].passed /\ Len(fr[t].calls) = Len(fr[t].snap)
              ELSE ~fr[t].passed /\ fr[t].calls = <<>>

\* a logger set to ERROR has passed a NOTICE record to its handler
C1_Witness ==
    \E t \in Threads :
        /\ LogReturned(t)
        /\ fr[t].thresh = ERROR
        /\ fr[t].level = NOTICE
        /\ Len(fr[t].calls) >= 1

\* C2: whatever the logger's level, a Stream or File handler whose Handle
\* has returned emitted the record exactly when the record's level is not
\* below the handler's own level
C2_HandlerFilterIndependent ==
    \A t \in Threads :
        \A i \in 1 .. Len(fr[t].calls) :
            fr[t].calls[i].kind \in {"Stream", "File"} =>
                (fr[t].calls[i].emitted <=> fr[t].level >= fr[t].calls[i].hlevel)

\* a DEBUG record on a logger set to NOTHING reached the first of two
\* handlers and not the second, whose level is above DEBUG
C2_Witness ==
    \E t \in Threads :
        /\ LogReturned(t)
        /\ fr[t].thresh = NOTHING
        /\ fr[t].level = DEBUG
        /\ Len(fr[t].calls) = 2
        /\ fr[t].calls[1].h # fr[t].calls[2].h
        /\ fr[t].calls[1].emitted /\ fr[t].calls[1].hlevel <= DEBUG
        /\ ~fr[t].calls[2].emitted /\ fr[t].calls[2].hlevel > DEBUG

\* C3: the handlers whose Handle has returned are always the front of the
\* list the logger had when the call began, in its order and with its
\* repetitions; the list only grows; and when the call returns all of them
\* have been called and none still holds its handler's lock
C3_FanOutOrder ==
    \A t \in Threads :
        /\ InDispatch(t) =>
              /\ fr[t].idx \in 1 .. Len(fr[t].snap)
              /\ Invoked(t) = SubSeq(fr[t].snap, 1, fr[t].idx - 1)
        /\ (InDispatch(t) \/ (LogReturned(t) /\ fr[t].passed)) =>
              /\ Len(fr[t].snap) <= Len(lg[fr[t].lgr].Handlers)
              /\ fr[t].snap = SubSeq(lg[fr[t].lgr].Handlers, 1, Len(fr[t].snap))
        /\ (LogReturned(t) /\ fr[t].passed) =>
              /\ Invoked(t) = fr[t].snap
              /\ \A h \in HandlerIds : hd[h].mu # t

\* a handler attached twice has been called twice by one logging call
C3_Witness ==
    \E t \in Threads :
        /\ LogReturned(t)
        /\ Len(fr[t].calls) = 2
        /\ fr[t].calls[1].h = fr[t].calls[2].h
        /\ fr[t].calls[1].emitted /\ fr[t].calls[2].emitted

\* the goroutines executing Emit of handler h
Emitting(h) ==
    {t \in Threads : pc[t] = "h_emit" /\ HandlerAt(fr[t].snap, fr[t].idx) = h}

\* C4: at most one goroutine executes Emit of one handler at any time, and
\* a handler's lock is held only by the goroutine executing its Emit, so it
\* is free once every Handle call has returned
C4_EmitMutualExclusion ==
    \A h \in HandlerIds :
        /\ Cardinality(Emitting(h)) <= 1
        /\ hd[h].mu # Nil => Emitting(h) = {hd[h].mu}
        /\ Emitting(h) # {} => hd[h].mu \in Emitting(h)

\* one goroutine is in Emit of a handler shared by two loggers while another
\* goroutine, logging through the other logger, waits for the handler's lock
C4_Witness ==
    \E t, u \in Threads :
        /\ pc[t] = "h_emit"
        /\ pc[u] = "h_lock"
        /\ fr[t].lgr # fr[u].lgr
        /\ HandlerAt(fr[t].snap, fr[t].idx) = HandlerAt(fr[u].snap, fr[u].idx)

\* C5: of concurrent GetLogger calls none fails with a repeated
\* registration, and every instance returned is the one stored in the
\* logger table under its name
C5_ConcurrentGetLogger ==
    /\ \A t \in Threads :
          ~(/\ pc[t] = "panicked"
            /\ fr[t].op = "GetLogger"
            /\ fr[t].panic = "Repeated registration key")
    /\ \A p \in returned : data[loggers][p[1]] = p[2]

\* the name GetLogger looks up for an argument
LookedUp(arg) == IF arg = "" THEN "root" ELSE arg

\* C6: with one goroutine and no DisableExistingLoggers, every GetLogger
\* call returns, for one name always the same instance, which carries that
\* name and is the table's entry; "" gives the root logger; an instance is
\* created with level NOTHING, no handlers, call depth 2 and caller capture
\* enabled
C6_SequentialGetLogger ==
    ndisable = 0 =>
        /\ \A p \in returned :
              /\ p[1] \in LoggerNames
              /\ lg[p[2]].Name = p[1]
              /\ data[loggers][p[1]] = p[2]
        /\ \A p, q \in returned : p[1] = q[1] => p[2] = q[2]
        /\ \A t \in Threads :
              /\ ~(pc[t] = "panicked" /\ fr[t].op = "GetLogger")
              /\ (pc[t] = "idle" /\ fr[t].op = "GetLogger") =>
                    /\ <<LookedUp(fr[t].arg), fr[t].ret>> \in returned
                    /\ fr[t].created =>
                          lg[fr[t].ret] =
                              [Name |-> LookedUp(fr[t].arg), Handlers |-> <<>>,
                               Level |-> NOTHING, funcCallDepth |-> 2,
                               runtimeCaller |-> TRUE]

\* GetLogger("") has returned the root logger that already existed, after
\* GetLogger("x") had created a logger
C6_Witness ==
    \E t \in Threads :
        /\ ndisable = 0
        /\ pc[t] = "idle"
        /\ fr[t].op = "GetLogger"
        /\ fr[t].arg = ""
        /\ ~fr[t].created
        /\ fr[t].ret = data[loggers]["root"]
        /\ \E p \in returned : p[1] = "x"

Won(r, k) == {w \in regWon : w[1] = r /\ w[2] = k}

Lost(r, k) == {w \in regLost : w[1] = r /\ w[2] = k}

Preset(r, k) == IF InitData[r][k] # Nil THEN 1 ELSE 0

\* C7: on every table and for every key, at most one Register call ever
\* inserts, none if the key was there from the start; a call that meets the
\* key panics and the entry keeps the value first registered; so of the
\* calls made for one absent key exactly one succeeds
C7_RegistryKeyUnique ==
    /\ \A r \in RegIds, k \in Keys :
          /\ Cardinality(Won(r, k)) + Preset(r, k) <= 1
          /\ Preset(r, k) = 1 => data[r][k] = InitData[r][k]
          /\ \A w \in Won(r, k) : data[r][k] = w[3]
          /\ Lost(r, k) # {} => Cardinality(Won(r, k)) + Preset(r, k) = 1
    /\ \A t \in Threads :
          fr[t].op = "Register" =>
              /\ pc[t] = "idle" => <<fr[t].recv, fr[t].name, fr[t].val>> \in regWon
              /\ pc[t] = "panicked" => <<fr[t].recv, fr[t].name, fr[t].val>> \in regLost

\* two goroutines registered the same new formatter name: one call inserted
\* its value, the other panicked
C7_Witness ==
    \E w \in regWon, l \in regLost :
        /\ w[1] = FormattersReg /\ l[1] = FormattersReg
        /\ w[2] = "json" /\ l[2] = "json"
        /\ w[3] # l[3]
        /\ data[FormattersReg]["json"] = w[3]
        /\ \E t \in Threads : pc[t] = "panicked" /\ fr[t].val = l[3]

Occurrences(h, hs) == Cardinality({i \in 1 .. Len(hs) : hs[i] = h})

\* the Close calls handler h is due when every logger of ls is closed
RECURSIVE CloseDue(_, _)
CloseDue(h, ls) ==
    IF ls = {} THEN 0
    ELSE LET l == CHOOSE x \in ls : TRUE
         IN  Occurrences(h, lg[l].Handlers) + CloseDue(h, ls \ {l})

\* C8: when DisableExistingLoggers returns with no other call running,
\* every handler of every logger registered at its start has had Close
\* called, once per attachment; the logger table holds "root" alone; that
\* logger is a new instance with one new stream handler; and the package
\* variable root is that instance
C8_ResetPostState ==
    \A t \in Threads :
        (pc[t] = "idle" /\ fr[t].op = "Disable") =>
            LET pre == {fr[t].preData[k] : k \in Keys} \ {Nil}
            IN  /\ \A h \in HandlerIds :
                      closeCalls[h] = fr[t].preClose[h] + CloseDue(h, pre)
                /\ \A k \in Keys : data[loggers][k] # Nil <=> k = "root"
                /\ data[loggers]["root"] = root
                /\ root > fr[t].preNlg
                /\ lg[root].Name = "root"
                /\ Len(lg[root].Handlers) = 1
                /\ lg[root].Handlers[1] > fr[t].preNhd
                /\ hd[lg[root].Handlers[1]] = NewStreamHandlerObj

\* DisableExistingLoggers has returned after closing two loggers, one of
\* them "x" with a handler attached
C8_Witness ==
    \E t \in Threads :
        /\ pc[t] = "idle"
        /\ fr[t].op = "Disable"
        /\ \E l \in LoggerIds :
              /\ fr[t].preData["x"] = l
              /\ lg[l].Handlers # <<>>
              /\ closeCalls[lg[l].Handlers[1]] >= 1
        /\ fr[t].preData["root"] # Nil

\* a goroutine's Handle panics on handler h in this step
HandlePanics(t, h) ==
    /\ pc[t] \in {"handle", "h_emit"}
    /\ pc'[t] = "panicked"
    /\ HandlerAt(fr[t].snap, fr[t].idx) = h

\* C9 as claimed: once DisableExistingLoggers has closed a Stream or File
\* handler, no Handle on it writes to its sink or fails
C9_ClosedHandlersSilent ==
    [][\A h \in HandlerIds :
          (hd[h].kind \in {"Stream", "File"} /\ h \in closedByReset) =>
              /\ written'[h] = written[h]
              /\ \A t \in Threads : ~HandlePanics(t, h)]_vars

\* C9 amended: once DisableExistingLoggers has closed a File handler, and
\* until SetPath reopens it, no Handle on it writes to its sink or fails
C9_ClosedFileHandlersSilent ==
    [][\A h \in HandlerIds :
          (hd[h].kind = "File" /\ h \in closedByReset) =>
              /\ written'[h] = written[h]
              /\ \A t \in Threads : ~HandlePanics(t, h)]_vars

\* a logging call through a logger closed by the reset has returned: Emit
\* ran on its File handler, whose file is closed and has received nothing,
\* and on its Stream handler, whose stream received the line
C9_Witness ==
    \E t \in Threads :
        /\ LogReturned(t)
        /\ fr[t].lgr \in resetClosed
        /\ \E i, j \in 1 .. Len(fr[t].calls) :
              LET c == fr[t].calls[i]
                  d == fr[t].calls[j]
              IN  /\ c.kind = "File" /\ c.emitted
                  /\ c.h \in closedByReset
                  /\ hd[c.h].output = "closedfile"
                  /\ written[c.h] = 0
                  /\ d.kind = "Stream" /\ d.emitted
                  /\ d.h \in closedByReset
                  /\ written[d.h] >= 1

\* every DisableExistingLoggers call made so far has returned
DisableDone == \A t \in Threads : fr[t].op = "Disable" => pc[t] = "idle"

\* C10: once DisableExistingLoggers has returned, every logger a GetLogger
\* call returned either was closed by the reset or is the table's entry for
\* its name
C10_ResetAtomic ==
    DisableDone =>
        \A p \in returned : p[2] \in resetClosed \/ data[loggers][p[1]] = p[2]

\* the positions of the handler list hs at which Close fails: a File handler
\* whose file was closed before the call, or earlier in the list
FailsAt(hs, pre) ==
    {i \in 1 .. Len(hs) :
        /\ hd[hs[i]].kind = "File"
        /\ \/ pre[hs[i]] = "closedfile"
           \/ pre[hs[i]] = "file" /\ \E j \in 1 .. (i - 1) : hs[j] = hs[i]}

\* C11: Logger.Close calls Close on every attached handler, once per
\* occurrence and in the order of attachment, whether or not an earlier
\* Close failed; it reports each failure on the diagnostic stream only,
\* returns no error and does not panic
C11_CloseBestEffort ==
    \A t \in Threads :
        fr[t].op = "Close" =>
            LET f == fr[t]
                hs == lg[f.lgr].Handlers
            IN  /\ pc[t] = "idle"
                /\ ~f.err
                /\ f.closed = hs
                /\ \A h \in HandlerIds :
                      closeCalls[h] = f.preClose[h] + Occurrences(h, hs)
                /\ f.diag = Cardinality(FailsAt(hs, f.preOut))

\* Logger.Close has returned after the Close of one handler failed and the
\* handler attached after it was closed all the same
C11_Witness ==
    \E t \in Threads :
        /\ fr[t].op = "Close"
        /\ pc[t] = "idle"
        /\ fr[t].diag >= 1
        /\ \E i \in FailsAt(fr[t].closed, fr[t].preOut) :
              /\ i < Len(fr[t].closed)
              /\ fr[t].closed[i + 1] # fr[t].closed[i]
              /\ closeCalls[fr[t].closed[i + 1]] > fr[t].preClose[fr[t].closed[i + 1]]

\* C12: a Close of a handler that was closed before returns no error,
\* whether the handler is closed directly or by the loggers it is attached
\* to
C12_CloseIdempotent ==
    \A t \in Threads :
        /\ (fr[t].op = "HandlerClose" /\ fr[t].preClose[fr[t].hdl] >= 1) => ~fr[t].err
        /\ fr[t].op = "Close" => fr[t].diag = 0

\* a goroutine's logging call, not a Panic or Panicf, ended in a panic
LogCrashed(t) == pc[t] = "panicked" /\ fr[t].op = "Log"

\* C13 as claimed: every logging call other than Panic and Panicf returns
\* to its caller, whatever the handlers' outputs, files and formatters
C13_LoggingNeverCrashes == \A t \in Threads : ~LogCrashed(t)

\* C13 amended: a logging call other than Panic and Panicf fails to return
\* only by the panic of a Stream or File handler that has no output; a
\* closed file and a formatter's error do not make it panic
C13_CrashesOnlyWithoutOutput ==
    \A t \in Threads :
        LogCrashed(t) =>
            LET h == HandlerAt(fr[t].snap, fr[t].idx)
            IN  /\ fr[t].passed
                /\ hd[h].kind \in {"Stream", "File"}
                /\ hd[h].output = "nil"
                /\ fr[t].panic \in {"you should set output file before use this handler",
                                    "nil pointer dereference"}

\* a logging call has returned although the formatter failed in an Emit and
\* another Emit wrote to a closed file
C13_Witness ==
    \E t \in Threads :
        /\ LogReturned(t)
        /\ fr[t].diag >= 1
        /\ \E i \in 1 .. Len(fr[t].calls) :
              /\ fr[t].calls[i].emitted
              /\ fr[t].calls[i].kind = "File"
              /\ hd[fr[t].calls[i].h].output = "closedfile"
              /\ closeCalls[fr[t].calls[i].h] >= 1

\* C14: Panic and Panicf never return to their caller; they dispatch a
\* CRITICAL record, and panic("CRITICAL") is raised only once the logger's
\* filter has been applied and, for a record that passed, Handle has
\* returned for every attached handler in order; it is raised also when the
\* logger or the handlers suppressed the record
C14_PanicAfterDispatch ==
    \A t \in Threads :
        fr[t].op = "Panic" =>
            /\ pc[t] # "idle"
            /\ fr[t].level = CRITICAL
            /\ InDispatch(t) \/ pc[t] = "panicked"
            /\ (pc[t] = "panicked" /\ fr[t].panic = "CRITICAL") =>
                  /\ fr[t].passed <=> ~(CRITICAL < fr[t].thresh)
                  /\ fr[t].passed => Invoked(t) = fr[t].snap
                  /\ ~fr[t].passed => fr[t].calls = <<>>
            /\ InDispatch(t) => fr[t].panic = ""

\* a Panic call raised its panic after the file handler suppressed the
\* record
C14_Witness ==
    \E t \in Threads :
        /\ fr[t].op = "Panic"
        /\ pc[t] = "panicked"
        /\ fr[t].panic = "CRITICAL"
        /\ fr[t].passed
        /\ Len(fr[t].calls) >= 1
        /\ \A i \in 1 .. Len(fr[t].calls) : ~fr[t].calls[i].emitted

\* the levels with a name of their own, besides NOTHING
CanonicalLevels == {DEBUG, INFO, WARN, ERROR, NOTICE, CRITICAL}

\* C15: a logger whose level is ALL passes a record of every canonical
\* level to its handlers, and a Stream or File handler whose level is ALL
\* emits it
C15_AllAcceptsEverything ==
    \A t \in Threads :
        (fr[t].op = "Log" /\ fr[t].level \in CanonicalLevels) =>
            /\ fr[t].thresh = ALL => fr[t].passed
            /\ \A i \in 1 .. Len(fr[t].calls) :
                  (fr[t].calls[i].kind \in {"Stream", "File"}
                      /\ fr[t].calls[i].hlevel = ALL) => fr[t].calls[i].emitted

\* the records goroutine t holds
Records == {t \in Threads : fr[t].op = "Record"}

\* C16: when the last argument given to NewLogRecord is a Fields map, the
\* record's Args are all the arguments but that one and its Fields are that
\* map; otherwise, a Fields map at an earlier place included, Args are the
\* arguments as given and Fields are empty.
C16_OnlyLastArgumentExamined ==
    \A t \in Records :
        LET args == fr[t].in
            n == Len(args)
        IN  IF n > 0 /\ args[n].kind = "fields"
            THEN /\ fr[t].rec.Args = [i \in 1 .. n - 1 |-> args[i]]
                 /\ fr[t].rec.Fields = args[n].m
            ELSE /\ fr[t].rec.Args = args
                 /\ fr[t].rec.Fields = {}

\* a record built from a Fields map followed by a string
C16_Witness ==
    \E t \in Records :
        /\ Len(fr[t].in) = 2
        /\ fr[t].in[1].kind = "fields"
        /\ fr[t].in[1].m # {}
        /\ fr[t].in[2].kind = "str"
        /\ Len(fr[t].rec.Args) = 2

\* the records GetMessage has been called on
Rendered == {t \in Records : fr[t].rendered}

\* the string forms of the arguments one after the other, a space standing
\* between two neighbours whose pair of kinds is in spaced
FormsJoined(args, spaced) ==
    Concat([i \in 1 .. Len(args) |->
        (IF i > 1 /\ <<args[i - 1].kind, args[i].kind>> \in spaced THEN <<" ">> ELSE <<>>)
            \o FormV(args[i])])

\* the template with its i-th %s replaced by the i-th argument, for string
\* arguments as many as the template has verbs
Substituted(msg, args) ==
    [i \in 1 .. Len(msg) |->
        IF msg[i] = "%s"
        THEN args[Cardinality({j \in 1 .. i : msg[j] = "%s"})].s
        ELSE msg[i]]

Positional(t) ==
    LET rec == fr[t].rec
    IN  (/\ rec.Msg # <<>>
         /\ Cardinality({j \in 1 .. Len(rec.Msg) : rec.Msg[j] = "%s"})
                = Len(rec.Args)
         /\ \A i \in 1 .. Len(rec.Args) : rec.Args[i].kind = "str")
            => fr[t].message = Substituted(rec.Msg, rec.Args)

\* an extracted Fields map leaves no trace in the message
FieldsApart(t) ==
    LET args == fr[t].in
        n == Len(args)
    IN  (/\ n > 0
         /\ args[n].kind = "fields"
         /\ \A i \in 1 .. n - 1 : args[i].kind # "fields")
            => \A i \in 1 .. Len(fr[t].message) :
                    /\ fr[t].message[i] # "logdog.Fields{"
                    /\ \A p \in args[n].m : fr[t].message[i] # p[1]

\* C17 as stated: with an empty template the message is the concatenation
\* of the string forms of the arguments; with a template the arguments are
\* substituted positionally; the extracted Fields map never contributes.
C17_MessageConcatenation ==
    \A t \in Rendered :
        /\ fr[t].rec.Msg = <<>> =>
                fr[t].message
                    = FormsJoined(fr[t].rec.Args, {})
        /\ Positional(t)
        /\ FieldsApart(t)

\* C17: with an empty template the message is the string forms of the
\* arguments in order, with one space between two neighbouring arguments
\* when neither of them is a string, and nothing between them otherwise;
\* with a template the arguments are substituted positionally; the message
\* is a function of the template and the Args left by the extraction, and
\* the extracted Fields map never contributes.
C17_MessageRendering ==
    \A t \in Rendered :
        /\ fr[t].rec.Msg = <<>> =>
                fr[t].message
                    = FormsJoined(fr[t].rec.Args,
                        {"int", "fields"} \X {"int", "fields"})
        /\ Positional(t)
        /\ FieldsApart(t)
        /\ fr[t].message
                = GetMessageOf([NoRecord EXCEPT !.Msg = fr[t].rec.Msg,
                                                !.Args = fr[t].rec.Args])

\* a message rendered from two integers and no template
C17_Witness ==
    \E t \in Rendered :
        /\ fr[t].rec.Msg = <<>>
        /\ Len(fr[t].rec.Args) = 2
        /\ \A i \in 1 .. 2 : fr[t].rec.Args[i].kind = "int"
        /\ Len(fr[t].message) = 3

\* C18: two Format calls on the same record by the same formatter with the
\* same configuration, in the same process, return the same string and the
\* same error, for the text and for the JSON formatter.
C18_FormatDeterministic ==
    \A t \in Records :
        \A i, j \in 1 .. Len(fr[t].outs) :
            (/\ fr[t].outs[i].kind = fr[t].outs[j].kind
             /\ fr[t].outs[i].tf = fr[t].outs[j].tf
             /\ fr[t].outs[i].term = fr[t].outs[j].term)
                => /\ fr[t].outs[i].out = fr[t].outs[j].out
                   /\ fr[t].outs[i].err = fr[t].outs[j].err

\* the Format calls made: the record and the result
Results ==
    UNION {{<<fr[t].rec, fr[t].outs[i]>> : i \in 1 .. Len(fr[t].outs)} :
                t \in Records}

\* the results of the JSON Format calls that returned no error
JSONResults == {r \in Results : r[2].kind = "json" /\ ~r[2].err}

\* C19: the object a JSON Format call returns has the keys time, message,
\* file, line and level, and no key besides these but _fields; it has the
\* key _fields exactly when the record has at least one field, and _fields
\* then holds exactly the pairs of the record.
C19_JSONFields ==
    \A r \in JSONResults :
        /\ {"time", "message", "file", "line", "level"} \subseteq r[2].keys
        /\ r[2].keys \subseteq
                {"time", "message", "file", "line", "level", "_fields"}
        /\ "_fields" \in r[2].keys <=> r[1].Fields # {}
        /\ "_fields" \in r[2].keys => r[2].fields = r[1].Fields
        /\ "_fields:{" \in {r[2].out[i] : i \in 1 .. Len(r[2].out)}
                <=> r[1].Fields # {}

\* a record with two fields formatted as JSON
C19_Witness ==
    \E r \in JSONResults :
        /\ Cardinality(r[1].Fields) = 2
        /\ "_fields" \in r[2].keys

\* the results of the text Format calls
TextResults == {r[2] : r \in {x \in Results : x[2].kind = "text"}}

\* the pieces of a string
Pieces(out) == {out[i] : i \in 1 .. Len(out)}

\* C20: the string a text Format call returns holds an ANSI escape sequence
\* only if the process has a colour terminal, EnableColors is set and the
\* template is not empty, and then it holds the colour of the level and the
\* reset sequence; neither placeholder is left in the string.
C20_ColourGating ==
    \A r \in TextResults :
        /\ Pieces(r.out) \cap Escapes # {}
                => r.term /\ r.tf.EnableColors /\ r.tf.Fmt # <<>>
        /\ (r.term /\ r.tf.EnableColors /\ r.tf.Fmt # <<>>)
                => Escapes \subseteq Pieces(r.out)
        /\ Pieces(r.out) \cap {"%(color)", "%(endColor)"} = {}

\* a formatter with EnableColors set and an empty template, on a colour
\* terminal
C20_Witness ==
    \E r \in TextResults :
        /\ r.term
        /\ r.tf.EnableColors
        /\ r.tf.Fmt = <<>>
        /\ "TIME" \in Pieces(r.out)

\* the LoadConfig calls that returned no error
Loaded ==
    {t \in Threads :
        fr[t].op = "LoadConfig" /\ ~fr[t].err /\ fr[t].panic = ""}

\* C21: after a LoadConfig call that returned no error, the handler's Name,
\* Level and Formatter are the configured ones, or for an absent key the
\* defaults "", NOTHING and the formatter registered as "terminal" (Stream)
\* or "default" (File), whatever they were before; a File handler's Path is
\* the configured filename.
C21_LoadConfigResult ==
    \A t \in Loaded :
        LET h == hd[fr[t].hdl]
            c == fr[t].cfg
        IN  /\ h.Name = (IF c.name = Absent THEN "" ELSE c.name)
            /\ h.Level = (IF c.level = Absent THEN NOTHING
                          ELSE levelNames[c.level])
            /\ h.Formatter =
                    (IF c.formatter = Absent
                     THEN data[FormattersReg]
                            [IF h.kind = "Stream" THEN "terminal" ELSE "default"]
                     ELSE data[FormattersReg][c.formatter])
            /\ h.kind = "File" => h.Path = c.filename

\* a File handler with a level and a path of its own, then configured with
\* a filename only
C21_Witness ==
    \E t \in Loaded :
        /\ fr[t].pre.kind = "File"
        /\ fr[t].pre.Level = DEBUG
        /\ fr[t].pre.Path = "p"
        /\ fr[t].cfg.level = Absent
        /\ fr[t].cfg.name = Absent
        /\ fr[t].cfg.filename = "q"

\* the LoadConfig calls made
LoadConfigs == {t \in Threads : fr[t].op = "LoadConfig"}

\* C22: a LoadConfig call on a File handler whose configuration has no
\* "filename", or an empty one, returns an error and does not panic.
C22_MissingFilenameIsAnError ==
    \A t \in LoadConfigs :
        (fr[t].pre.kind = "File" /\ fr[t].cfg.filename \in {Absent, ""})
            => fr[t].err /\ fr[t].panic = "" /\ pc[t] # "panicked"

\* the logging calls made
LogCalls == {t \in Threads : fr[t].op \in {"Log", "Panic"}}

\* C23: the record of a logging call carries the path "??", the function
\* "??" and the line 0 when the logger does not capture the caller or when
\* runtime.Caller fails at the logger's call depth, and the captured file,
\* line and function otherwise; in either case the call goes on to the
\* logger's filter and, the record passing it, to the handlers.
C23_CallerCapture ==
    \A t \in LogCalls :
        /\ (~fr[t].callerOn \/ ~fr[t].callerOk)
                => /\ fr[t].file = "??"
                   /\ fr[t].funcname = "??"
                   /\ fr[t].line = 0
        /\ (fr[t].callerOn /\ fr[t].callerOk)
                => /\ fr[t].file \notin {"??", ""}
                   /\ fr[t].funcname \notin {"??", ""}
                   /\ fr[t].line > 0
        /\ fr[t].passed <=> ~(fr[t].level < fr[t].thresh)
        /\ (pc[t] = "idle" /\ fr[t].passed)
                => Len(fr[t].calls) = Len(fr[t].snap)

\* a call whose stack walk failed has been handed to a handler that wrote it
C23_Witness ==
    \E t \in LogCalls :
        /\ fr[t].callerOn
        /\ ~fr[t].callerOk
        /\ pc[t] = "idle"
        /\ \E i \in 1 .. Len(fr[t].calls) : fr[t].calls[i].emitted

\* goroutine t performs a loggers.Get in this step: the first one of a
\* GetLogger call, or the second one after the logger has been made
GetStep(t) ==
    \/ /\ pc[t] = "idle"
       /\ ops'[t] = ops[t] + 1
       /\ fr'[t].op = "GetLogger"
    \/ /\ pc[t] = "gl_check2"
       /\ pc'[t] # "gl_check2"

\* C24: no Get on a table is performed while another goroutine is inside
\* Register on that table, holding its lock between the duplicate check
\* and the insertion.
C24_GetGuardedByLock ==
    [][\A t \in Threads :
            GetStep(t) => regmu[loggers] \notin Threads \ {t}]_vars

\* goroutine t is in a Handle call on handler h at position p: "h_lock"
\* once Filter has let the record pass, "h_emit" once it holds the lock
InHandle(t, h, p) ==
    /\ pc[t] = p
    /\ HandlerAt(fr[t].snap, fr[t].idx) = h

\* C25: Filter and Emit of one Handle call are both performed under the
\* handler's lock: while a goroutine is between its Filter decision and its
\* Emit it holds the lock, and no other goroutine's Handle on the same
\* handler is emitting.
C25_LockCoversFilter ==
    \A t \in Threads, h \in HandlerIds :
        InHandle(t, h, "h_lock") =>
            \A u \in Threads \ {t} : ~InHandle(u, h, "h_emit")

\* goroutine t performs the Emit of its Handle call on handler h in this step
EmitStep(t, h) == InHandle(t, h, "h_emit") /\ pc'[t] # "h_emit"

\* C26 as stated: every Emit of a Stream or File handler with an output
\* adds exactly one line to the sink.
C26_EveryEmitWritesALine ==
    [][\A t \in Threads, h \in HandlerIds :
            (EmitStep(t, h) /\ hd[h].output # "nil")
                => written'[h] = written[h] + 1]_vars

\* C26: every Emit of a Stream or File handler calls fmt.Fprintln on the
\* sink once: an open stream or file receives exactly one line, a closed
\* file none, the failed write being ignored; every Format error is reported
\* with one line on the fallback stream, the line still goes to the sink,
\* and the error is neither returned nor raised: the Handle call returns
\* and the logging call goes on.
C26_EmitDegrades ==
    [][\A t \in Threads, h \in HandlerIds :
            (EmitStep(t, h) /\ hd[h].output # "nil")
                => /\ written'[h] = written[h]
                        + (IF hd[h].output = "closedfile" THEN 0 ELSE 1)
                   /\ \A k \in HandlerIds \ {h} : written'[k] = written[k]
                   /\ fr'[t].diag - fr[t].diag = fr'[t].fails - fr[t].fails
                   /\ fr'[t].fails - fr[t].fails \in {0, 1}
                   /\ pc'[t] \in {"handle", AfterLog(fr[t])}
                   /\ Len(fr'[t].calls) = Len(fr[t].calls) + 1
                   /\ fr'[t].calls[Len(fr'[t].calls)].emitted]_vars

\* a logging call has returned, one of its Emits having had a Format error
\* and the sink having received the line
C26_Witness ==
    \E t \in Threads :
        /\ fr[t].op = "Log"
        /\ pc[t] = "idle"
        /\ fr[t].fails > 0
        /\ fr[t].diag = fr[t].fails
        /\ \E i \in 1 .. Len(fr[t].calls) :
                /\ fr[t].calls[i].emitted
                /\ hd[fr[t].calls[i].h].output = "stderr"
                /\ written[fr[t].calls[i].h] > 0

\* the levels that have a name
Named == {l \in LevelNums : nameLevels[l] # ""}

\* C27 as stated: for every level that has a name, the level of its name is
\* the level itself.
C27_LevelRoundTrip ==
    \A l \in Named : GetLevelByName(GetLevelName(l)) = l

\* goroutine t performs AddLevelName in this step
AddLevelNameStep(t) ==
    /\ nconfig' = nconfig + 1
    /\ fr'[t].op = "AddLevelName"

\* C27: the name of every level that has one is a name GetLevelByName
\* finds; and immediately after AddLevelName(l, n), GetLevelName(l) = n and
\* GetLevelByName(n) = l, every other entry of both tables being unchanged.
C27_LevelTables ==
    /\ [](\A l \in Named : HasLevelByName(GetLevelName(l)))
    /\ [][\A t \in Threads :
            AddLevelNameStep(t) =>
                LET l == fr'[t].level
                    n == fr'[t].name
                IN  /\ nameLevels'[l] = n
                    /\ levelNames'[n] = l
                    /\ \A k \in LevelNums \ {l} : nameLevels'[k] = nameLevels[k]
                    /\ \A m \in LevelNameSet \ {n} :
                            levelNames'[m] = levelNames[m]]_vars

\* the name "DEBUG" has been given to the level TRACE: DEBUG is still named
\* "DEBUG", and GetLevelByName("DEBUG") is TRACE
C27_Witness ==
    \E t \in Threads :
        /\ fr[t].op = "AddLevelName"
        /\ fr[t].level = TRACE
        /\ fr[t].name = "DEBUG"
        /\ GetLevelName(DEBUG) = "DEBUG"
        /\ GetLevelByName("DEBUG") = TRACE

\* the pieces sub stand in a row somewhere in out
Within(sub, out) ==
    \E i \in 0 .. Len(out) - Len(sub) :
        \A j \in 1 .. Len(sub) : out[i + j] = sub[j]

\* the text Format calls made: the record and the result
TextCalls == {r \in Results : r[2].kind = "text"}

\* C28: the string a text Format call returns holds " k=v" for every field
\* of the record, k and v as given, and the message as GetMessage returns
\* it, placeholder-shaped text inside them included.
C28_FieldsAndMessageVerbatim ==
    \A r \in TextCalls :
        /\ \A p \in r[1].Fields : Within(<<" ", p[1], "=", p[2]>>, r[2].out)
        /\ Within(GetMessageOf(r[1]), r[2].out)

\* the LoadConfig calls that returned an error
LoadFailed == {t \in LoadConfigs : fr[t].err}

\* C29: when LoadConfig returns an error because the formatter is not
\* registered, it has not panicked and the handler's Name, Level, Formatter,
\* Path and output are what they were before the call.
C29_FailedLoadConfigChangesNothing ==
    \A t \in LoadFailed :
        LET h == hd[fr[t].hdl]
        IN  /\ pc[t] # "panicked"
            /\ h.Name = fr[t].pre.Name
            /\ h.Level = fr[t].pre.Level
            /\ h.Formatter = fr[t].pre.Formatter
            /\ h.Path = fr[t].pre.Path
            /\ h.output = fr[t].pre.output

\* the handlers whose Close has been called once, last of all
ClosedLast ==
    {h \in HandlerIds :
        /\ hd[h].kind = "File"
        /\ closeCalls[h] = 1
        /\ \E t \in Threads : fr[t].op = "HandlerClose" /\ fr[t].hdl = h}

\* C30: after SetPath and LoadConfig calls on a File handler followed by
\* one Close, no file that the handler opened is open.
C30_NoOpenFileLeft ==
    \A h \in ClosedLast : hd[h].lost = 0 /\ hd[h].output # "file"

====
